---- MODULE Spec2Model ----
(***************************************************************************)
(* A model of the CAD analysis core: PathOptimizer (path_optimizer.py),     *)
(* NestingOptimizer (nesting_optimizer.py) and the geometry extraction of  *)
(* CADProcessor (cad_processor.py).                                        *)
(*                                                                         *)
(* Numbers.  The lengths of Python are modelled in fixed point.  A length  *)
(* is an integer count of 1/10000 mm (four decimals, truncated square      *)
(* roots); a value the code passes through round(v, 2) is an integer count *)
(* of hundredths, rounded half-to-even as Python's round does.  The        *)
(* coordinates of PathOptimizer and the part dimensions of                 *)
(* NestingOptimizer are whole millimetres, the coordinates of the          *)
(* extractor thousandths.  The percentages and costs of NestingOptimizer   *)
(* are computed in IEEE 754 doubles.                                       *)
(***************************************************************************)
EXTENDS Integers, Sequences, FiniteSets, TLC

\* ------------------------------------------------------------------ bounds
\* Entities per drawing handed to calculate_tsp_path.
MaxEntities == 2
\* Drawing coordinates are the grid points (x, y) with x + y <= MaxCoord.
MaxCoord == 1
\* Part widths are DimStep * (0..MaxWidthSteps) mm, heights DimStep *
\* (0..MaxHeightSteps) mm: from 0 to beyond the largest catalog sheet.
DimStep == 490
MaxWidthSteps == 5
MaxHeightSteps == 9
\* Entities per modelspace handed to process_dxf.
MaxStream == 2
\* Calls made one after the other on one optimizer instance.
MaxCalls == 3
\* Waypoints of a tour handed to _improve_path_2opt.
MaxTour == 5

\* --------------------------------------------------------------- constants
\* float('inf'), the initial min_dist of the nearest-neighbour scan.
Inf == -1

\* The first nine belong to PathOptimizer.calculate_tsp_path, the next eight
\* to NestingOptimizer.calculate_optimal_nesting, the next six to
\* CADProcessor.process_dxf, the next three to _calculate_complexity_score;
\* calls is the history of the calls an optimizer instance has returned from
\* and the last six belong to PathOptimizer._improve_path_2opt.
VARIABLES entities,      \* geometry_data['entities']
    ppc,                 \* position in calculate_tsp_path: start, nn, done
    points,              \* the extracted waypoints
    entity_map,          \* set of entity indices registered in entity_map
    original_distance,   \* local of calculate_tsp_path (1/10000 mm)
    unvisited,           \* locals of _nearest_neighbor_tsp
    path,
    current,
    presult,             \* the returned dict
    bounding_box,       \* geometry_data['bounding_box']
    npc,                 \* position in calculate_optimal_nesting: start, loop, end, done
    sheet_i,             \* index of the next sheet of the for loop (1-based)
    best_utilization,    \* locals of calculate_optimal_nesting
    best_sheet,
    best_arrangement,
    results,
    nresult,             \* the returned dict
    msp,                 \* the entities of the drawing's modelspace
    xpc,                 \* position in process_dxf: loop, done, raised
    entity_i,            \* index of the next entity of the for loop (1-based)
    geometry_data,       \* local of process_dxf, the record under construction
    all_points,          \* local of process_dxf, the bounding box reference points
    xresult,             \* what process_dxf returned or raised
    score_data,          \* the geometry_data handed to _calculate_complexity_score
    spc,                 \* position in _calculate_complexity_score: call, done
    score,               \* what it returned, in tenths
    calls,               \* the earlier calls on the instance: input and output
    tpc,                 \* position in _improve_path_2opt: idle, loop, done
    input_path,          \* its parameter path
    best_path,           \* locals of _improve_path_2opt
    best_distance,
    improved,
    passes               \* passes of its while loop carried out so far

pvars == <<entities, ppc, points, entity_map, original_distance,
           unvisited, path, current, presult>>

nvars == <<bounding_box, npc, sheet_i, best_utilization, best_sheet,
           best_arrangement, results, nresult>>

xvars == <<msp, xpc, entity_i, geometry_data, all_points, xresult>>

svars == <<score_data, spc, score>>

tvars == <<tpc, input_path, best_path, best_distance, improved, passes>>

vars == <<pvars, nvars, xvars, svars, calls, tvars>>

\* ------------------------------------------------------------- arithmetic

Abs(x) == IF x < 0 THEN -x ELSE x

\* Largest r with r*r <= n.
ISqrt(n) == CHOOSE r \in 0..n : r * r <= n /\ (r + 1) * (r + 1) > n

\* One more decimal digit of a square root by the long-hand method: root is
\* the digits so far, rem the remainder n*100^k - root^2.
RECURSIVE SqrtDigits(_, _, _)
SqrtDigits(root, rem, k) ==
    IF k = 0 THEN root
    ELSE LET r100 == rem * 100
             d == CHOOSE c \in 0..9 :
                     /\ (20 * root + c) * c <= r100
                     /\ (c = 9 \/ (20 * root + c + 1) * (c + 1) > r100)
         IN SqrtDigits(10 * root + d, r100 - (20 * root + d) * d, k - 1)

\* math.sqrt(n) for an integer n, in 1/10000 units, truncated.
Sqrt4(n) == SqrtDigits(ISqrt(n), n - ISqrt(n) * ISqrt(n), 4)

\* round(n / d) to the nearest integer, ties to even (d > 0).
RoundDiv(n, d) ==
    LET q == n \div d
        r == n % d
    IN IF 2 * r > d THEN q + 1
       ELSE IF 2 * r < d THEN q
       ELSE IF q % 2 = 0 THEN q ELSE q + 1

\* round(v, 2) of a length v held in 1/10000 units: hundredths.
Round2(v) == RoundDiv(v, 100)

\* ------------------------------------------------- binary floating point
\* The nesting percentages and costs are quotients that can fall exactly
\* between two decimals, where the result of round() depends on the binary
\* float the division produced.  They are computed as Python computes them:
\* IEEE 754 doubles, 53-bit significands, round to nearest, ties to even.
\* Long numbers are sequences of base-256 digits, most significant first.
\* A non-negative double is [m, e]: m the significand, seven digits of which
\* the first is in 16..31 (53 bits), and the value is m * 2^e; zero is
\* [<<>>, 0].

\* The digits of a double's significand: 5 + 6 * 8 = 53 bits.
SignificandDigits == 7

ZeroDigits(n) == [i \in 1..n |-> 0]

\* The digits of a natural number (0 is <<>>).
RECURSIVE DigitsOf(_)
DigitsOf(n) == IF n = 0 THEN <<>> ELSE Append(DigitsOf(n \div 256), n % 256)

\* The natural number of a digit sequence, from digit i on; acc is the value
\* of the digits before i.
RECURSIVE DigitsValue(_, _, _)
DigitsValue(b, i, acc) ==
    IF i > Len(b) THEN acc ELSE DigitsValue(b, i + 1, 256 * acc + b[i])

RECURSIVE StripZeros(_)
StripZeros(b) == IF b # <<>> /\ b[1] = 0 THEN StripZeros(Tail(b)) ELSE b

\* b * c + carry for a natural c < 2^23, from digit i down to the first.
RECURSIVE MulDigits(_, _, _, _, _)
MulDigits(b, i, c, carry, acc) ==
    IF i = 0 THEN DigitsOf(carry) \o acc
    ELSE MulDigits(b, i - 1, c, (b[i] * c + carry) \div 256,
                   <<(b[i] * c + carry) % 256>> \o acc)

\* Long division of b by a natural c < 2^23, from digit i on: r is the
\* running remainder, q the quotient digits so far.
RECURSIVE DivDigits(_, _, _, _, _)
DivDigits(b, i, c, r, q) ==
    IF i > Len(b) THEN [q |-> q, r |-> r]
    ELSE DivDigits(b, i + 1, c, (256 * r + b[i]) % c,
                   Append(q, (256 * r + b[i]) \div c))

\* a - b for digit sequences of one length with a >= b, from digit i down.
RECURSIVE SubDigits(_, _, _, _, _)
SubDigits(a, b, i, borrow, acc) ==
    IF i = 0 THEN acc
    ELSE SubDigits(a, b, i - 1, IF a[i] - b[i] - borrow < 0 THEN 1 ELSE 0,
                   <<(a[i] - b[i] - borrow + 256) % 256>> \o acc)

\* b * 2^k for any natural k.
ShiftLeft(b, k) ==
    MulDigits(b, Len(b), 2 ^ (k % 8), 0, <<>>) \o ZeroDigits(k \div 8)

\* b plus one, for a b that is not all 255s.
IncDigits(b) ==
    LET j == CHOOSE k \in 1..Len(b) :
                 b[k] # 255 /\ \A l \in (k + 1)..Len(b) : b[l] = 255
    IN [i \in 1..Len(b) |->
           IF i < j THEN b[i] ELSE IF i = j THEN b[i] + 1 ELSE 0]

\* The digits frac, read as a fraction 0.frac (a little more when sticky),
\* against one half: -1 below, 0 equal, 1 above.
AgainstHalf(frac, sticky) ==
    IF frac = <<>> THEN -1
    ELSE IF frac[1] > 128 THEN 1
    ELSE IF frac[1] < 128 THEN -1
    ELSE IF sticky \/ \E i \in 2..Len(frac) : frac[i] # 0 THEN 1
    ELSE 0

\* The number of bits of a digit d in 1..255.
BitLength(d) == CHOOSE k \in 1..8 : 2 ^ (k - 1) <= d /\ d < 2 ^ k

\* The double nearest to b * 2^e (a little more when sticky), ties to even.
\* b has no leading zero digit.  b is first shifted left until its first
\* digit has five bits; the 53 bits kept are then its first seven digits.
RoundToDouble(b, e, sticky) ==
    IF b = <<>> THEN [m |-> <<>>, e |-> 0]
    ELSE LET j == (13 - BitLength(b[1])) % 8
             s == ShiftLeft(b, j)
             n == Len(s) - SignificandDigits
             keep == SubSeq(s, 1, SignificandDigits)
             h == AgainstHalf(SubSeq(s, SignificandDigits + 1, Len(s)), sticky)
             up == h = 1 \/ (h = 0 /\ keep[SignificandDigits] % 2 = 1)
             e2 == e - j + 8 * n
         IN IF n <= 0 THEN [m |-> s \o ZeroDigits(-n), e |-> e2]
            ELSE IF ~up THEN [m |-> keep, e |-> e2]
            ELSE IF keep = <<31>> \o [i \in 1..(SignificandDigits - 1) |-> 255]
            THEN [m |-> <<16>> \o ZeroDigits(SignificandDigits - 1),
                  e |-> e2 + 1]
            ELSE [m |-> IncDigits(keep), e |-> e2]

\* float(n) for a natural n.
float_of_int(n) == RoundToDouble(DigitsOf(n), 0, FALSE)

\* f * c, c a natural below 2^23.
float_mul_int(f, c) ==
    RoundToDouble(StripZeros(MulDigits(f.m, Len(f.m), c, 0, <<>>)), f.e, FALSE)

\* f / c, c a positive natural below 2^23: four more quotient digits leave
\* more than 53 significant bits.
float_div_int(f, c) ==
    LET d == DivDigits(f.m \o ZeroDigits(4), 1, c, 0, <<>>)
    IN RoundToDouble(StripZeros(d.q), f.e - 32, d.r # 0)

\* a - b for doubles a >= b.
float_sub(a, b) ==
    IF b.m = <<>> THEN a
    ELSE LET emin == IF a.e < b.e THEN a.e ELSE b.e
             am == ShiftLeft(a.m, a.e - emin)
             bm == ShiftLeft(b.m, b.e - emin)
             bp == ZeroDigits(Len(am) - Len(bm)) \o bm
         IN RoundToDouble(StripZeros(SubDigits(am, bp, Len(am), 0, <<>>)),
                          emin, FALSE)

\* round(f, ndigits) as the integer round(f, ndigits) * scale, scale =
\* 10^ndigits: the integer nearest to the exact value of f * scale, ties to
\* even (Python rounds the double's exact value).  For f with e < 0 and
\* f * scale < 2^31.
float_round(f, scale) ==
    IF f.m = <<>> THEN 0
    ELSE LET j == (8 - ((-f.e) % 8)) % 8
             p == ShiftLeft(MulDigits(f.m, Len(f.m), scale, 0, <<>>), j)
             nfrac == ((-f.e) + j) \div 8
             pp == ZeroDigits(nfrac - Len(p)) \o p
             whole == DigitsValue(SubSeq(pp, 1, Len(pp) - nfrac), 1, 0)
             h == AgainstHalf(SubSeq(pp, Len(pp) - nfrac + 1, Len(pp)), FALSE)
         IN IF h = 1 \/ (h = 0 /\ whole % 2 = 1) THEN whole + 1 ELSE whole

\* ---------------------------------------------------------------- entities

Pt == {p \in (0..MaxCoord) \X (0..MaxCoord) : p[1] + p[2] <= MaxCoord}

Origin == <<0, 0>>

\* An entity dict.  "has" is the set of keys that 'key in entity' finds.
LineEntity(s, e) ==
    [type |-> "LINE", has |-> {"start", "end"}, start |-> s, end |-> e,
     center |-> Origin, radius |-> 0]

CircleEntity(c) ==
    [type |-> "CIRCLE", has |-> {"center", "radius"}, start |-> Origin,
     end |-> Origin, center |-> c, radius |-> 1]

\* The kinds the extractor emits with a 'center' key but that are not circles.
CenteredKinds == {"ARC", "ELLIPSE"}

\* The kinds the extractor emits with neither start/end nor center.
PlainKinds == {"LWPOLYLINE", "SPLINE", "TEXT", "BLOCK_REFERENCE"}

OtherEntity(k) ==
    [type |-> k,
     has |-> IF k \in CenteredKinds THEN {"center", "radius"} ELSE {},
     start |-> Origin, end |-> Origin,
     center |-> IF k \in CenteredKinds THEN <<MaxCoord, MaxCoord>> ELSE Origin,
     radius |-> IF k \in CenteredKinds THEN 1 ELSE 0]

EntitySet ==
    {LineEntity(s, e) : s \in Pt, e \in Pt}
        \cup {CircleEntity(c) : c \in Pt}
        \cup {OtherEntity(k) : k \in CenteredKinds \cup PlainKinds}

\* The spec's example drawing: Line A (0,0)-(10,0), Line B (20,0)-(30,0).
ExampleAB ==
    <<LineEntity(<<0, 0>>, <<10, 0>>), LineEntity(<<20, 0>>, <<30, 0>>)>>

Drawings ==
    UNION {[1..n -> EntitySet] : n \in 0..MaxEntities} \cup {ExampleAB}

\* ------------------------------------------------------------ PathOptimizer

\* _distance: sqrt(dx*dx + dy*dy).
distance(p1, p2) ==
    LET dx == p2[1] - p1[1]
        dy == p2[2] - p1[2]
    IN Sqrt4(dx * dx + dy * dy)

\* The loop body without the test of the type at line 53: whatever has a
\* center yields a waypoint.
entity_points_any_center(entity, i, n) ==
    IF entity.type = "LINE" /\ {"start", "end"} \subseteq entity.has
    THEN <<[id |-> i, x |-> entity.start[1], y |-> entity.start[2],
            type |-> "start", entity_id |-> i, radius |-> 0],
           [id |-> i + n, x |-> entity.end[1], y |-> entity.end[2],
            type |-> "end", entity_id |-> i, radius |-> 0]>>
    ELSE IF "center" \in entity.has
    THEN <<[id |-> i, x |-> entity.center[1], y |-> entity.center[2],
            type |-> "circle", entity_id |-> i, radius |-> entity.radius]>>
    ELSE <<>>

\* The waypoints one entity contributes (loop body, lines 28-65).  i is the
\* 0-based index of enumerate(entities), n is len(entities).
entity_points(entity, i, n) ==
    IF entity.type = "LINE" /\ {"start", "end"} \subseteq entity.has
    THEN <<[id |-> i, x |-> entity.start[1], y |-> entity.start[2],
            type |-> "start", entity_id |-> i, radius |-> 0],
           [id |-> i + n, x |-> entity.end[1], y |-> entity.end[2],
            type |-> "end", entity_id |-> i, radius |-> 0]>>
    ELSE IF entity.type = "CIRCLE" /\ "center" \in entity.has
    THEN <<[id |-> i, x |-> entity.center[1], y |-> entity.center[2],
            type |-> "circle", entity_id |-> i, radius |-> entity.radius]>>
    ELSE <<>>

\* The extraction loop (lines 24-68): the waypoints of entities[1..k].
RECURSIVE extract_points(_, _)
extract_points(ents, k) ==
    IF k = 0 THEN <<>>
    ELSE extract_points(ents, k - 1) \o entity_points(ents[k], k - 1, Len(ents))

\* The keys of entity_map after the loop.
extract_entity_map(ents) ==
    {i \in 0..(Len(ents) - 1) : entity_points(ents[i + 1], i, Len(ents)) # <<>>}

\* _calculate_original_distance, the loop over entities[k..]: total so far,
\* has_last says whether last_point is set.
RECURSIVE original_walk(_, _, _, _, _)
original_walk(ents, k, total, has_last, last_point) ==
    IF k > Len(ents) THEN total
    ELSE LET e == ents[k] IN
         IF e.type = "LINE" /\ {"start", "end"} \subseteq e.has
         THEN original_walk(ents, k + 1,
                  total + (IF has_last THEN distance(last_point, e.start) ELSE 0)
                        + distance(e.start, e.end),
                  TRUE, e.end)
         ELSE IF e.type = "CIRCLE" /\ "center" \in e.has
         THEN original_walk(ents, k + 1,
                  total + (IF has_last THEN distance(last_point, e.center) ELSE 0),
                  TRUE, e.center)
         ELSE original_walk(ents, k + 1, total, has_last, last_point)

\* The walk that forgets the travel between entities: last_point never set.
RECURSIVE original_walk_no_travel(_, _, _)
original_walk_no_travel(ents, k, total) ==
    IF k > Len(ents) THEN total
    ELSE LET e == ents[k] IN
         IF e.type = "LINE" /\ {"start", "end"} \subseteq e.has
         THEN original_walk_no_travel(ents, k + 1, total + distance(e.start, e.end))
         ELSE original_walk_no_travel(ents, k + 1, total)

original_distance_no_travel(ents) == original_walk_no_travel(ents, 1, 0)

calculate_original_distance(ents) == original_walk(ents, 1, 0, FALSE, Origin)

\* The inner for loop of _nearest_neighbor_tsp (lines 155-165) from position
\* i on; indices are 1-based here (nearest_idx = 1 is Python's 0).
RECURSIVE nearest_scan(_, _, _, _, _)
nearest_scan(cur, unv, i, nearest_idx, min_dist) ==
    IF i > Len(unv) THEN nearest_idx
    ELSE LET dist == distance(<<cur.x, cur.y>>, <<unv[i].x, unv[i].y>>) IN
         IF min_dist = Inf \/ dist < min_dist
         THEN nearest_scan(cur, unv, i + 1, i, dist)
         ELSE nearest_scan(cur, unv, i + 1, nearest_idx, min_dist)

\* The scan with dist <= min_dist: among equally near waypoints the last wins.
RECURSIVE nearest_scan_le(_, _, _, _, _)
nearest_scan_le(cur, unv, i, nearest_idx, min_dist) ==
    IF i > Len(unv) THEN nearest_idx
    ELSE LET dist == distance(<<cur.x, cur.y>>, <<unv[i].x, unv[i].y>>) IN
         IF min_dist = Inf \/ dist <= min_dist
         THEN nearest_scan_le(cur, unv, i + 1, i, dist)
         ELSE nearest_scan_le(cur, unv, i + 1, nearest_idx, min_dist)

nearest_index_last_tie(cur, unv) == nearest_scan_le(cur, unv, 1, 1, Inf)

nearest_index(cur, unv) == nearest_scan(cur, unv, 1, 1, Inf)

\* A pop that always removes the head, whatever index was asked for.
list_pop_head(s, idx) == Tail(s)

\* list.pop(idx): the list without its idx-th element.
list_pop(s, idx) == SubSeq(s, 1, idx - 1) \o SubSeq(s, idx + 1, Len(s))

\* _calculate_path_distance.
RECURSIVE calculate_path_distance(_)
calculate_path_distance(p) ==
    IF Len(p) < 2 THEN 0
    ELSE calculate_path_distance(SubSeq(p, 1, Len(p) - 1))
             + distance(<<p[Len(p) - 1].x, p[Len(p) - 1].y>>,
                        <<p[Len(p)].x, p[Len(p)].y>>)

\* The waypoints of the tours handed to _improve_path_2opt lie in a row,
\* one unit apart, or on the corners of a 3 x 4 rectangle: every distance
\* is a whole number.  A tour visits them in any order.
Tours ==
    {[k \in DOMAIN f |-> [id |-> f[k], x |-> f[k] - 1, y |-> 0]] :
         f \in UNION {{g \in [1..m -> 1..m] :
                          \A a, b \in 1..m : g[a] = g[b] => a = b} :
                      m \in 0..MaxTour}}
        \cup {[k \in 1..4 |-> [id |-> f[k], x |-> 3 * ((f[k] \div 2) % 2),
                               y |-> 4 * (((f[k] + 1) \div 2) % 2)]] :
                 f \in {g \in [1..4 -> 1..4] :
                           \A a, b \in 1..4 : g[a] = g[b] => a = b}}

\* The reversal with the first waypoint of the path taken into it.
reversed_from_start(p, i, j) ==
    [k \in 1..Len(p) |-> IF k <= j THEN p[1 + j - k] ELSE p[k]]

\* Line 203 with i and j counted from 1:
\* best_path[:i] + best_path[i:j+1][::-1] + best_path[j+1:].
reversed_between(p, i, j) ==
    [k \in 1..Len(p) |-> IF k >= i /\ k <= j THEN p[i + j - k] ELSE p[k]]

\* The pairs the for loops of lines 197-201 try, counted from 1: i from
\* range(1, len - 2), j from range(i + 1, len), j - i = 1 passed over.
scanned_pairs(p) ==
    {ij \in (2..(Len(p) - 2)) \X (1..Len(p)) : ij[2] >= ij[1] + 2}

\* The pairs that pass the test of line 206.
improving_pairs(p, d) ==
    {ij \in scanned_pairs(p) :
         calculate_path_distance(reversed_between(p, ij[1], ij[2])) < d}

\* The pair at which the loops break: the first in the order of the scan.
first_improving(p, d) ==
    CHOOSE ij \in improving_pairs(p, d) :
        \A other \in improving_pairs(p, d) :
            \/ ij[1] < other[1]
            \/ ij[1] = other[1] /\ ij[2] <= other[2]

\* The guard with the threshold off by one.
not_enough_points_below_one(pts) == Len(pts) < 1

\* The guard of line 70.
not_enough_points(pts) == Len(pts) < 2

\* The type recorded for a path step: entity_map.get(id, {}).get('type', 'UNKNOWN').
detail_type(ents, emap, id) ==
    IF id \in emap THEN ents[id + 1].type ELSE "UNKNOWN"

\* path_details (lines 90-100); coordinates in hundredths.
path_details(ents, emap, p) ==
    [i \in 1..Len(p) |->
        [step |-> i, x |-> Round2(p[i].x * 10000), y |-> Round2(p[i].y * 10000),
         entity_type |-> detail_type(ents, emap, p[i].entity_id),
         entity_id |-> p[i].entity_id, point_type |-> p[i].type]]

\* The returned dict with the savings taken the wrong way round
\* (optimized - original).
tsp_result_swapped(ents, emap, pts, orig, optimized_path) ==
    LET optimized_distance == calculate_path_distance(optimized_path)
        savings_distance == optimized_distance - orig
    IN [success |-> TRUE,
        original_distance |-> Round2(orig),
        optimized_distance |-> Round2(optimized_distance),
        savings_distance |-> Round2(savings_distance),
        savings_percent |->
            IF orig > 0 THEN RoundDiv(savings_distance * 10000, orig) ELSE 0,
        total_points |-> Len(pts),
        path_steps |-> Len(optimized_path),
        path_details |-> path_details(ents, emap, optimized_path),
        optimized_path |-> optimized_path,
        algorithm |-> "Nearest Neighbor TSP",
        time_savings_estimate |->
            IF orig > 0 THEN RoundDiv(savings_distance * 1000, orig) ELSE 0]

\* The savings of lines 86-87 and the returned dict of lines 102-114.
\* Distances are reported in hundredths of a mm, savings_percent in
\* hundredths of a percent, time_savings (the .1f text) in tenths of a percent.
tsp_result(ents, emap, pts, orig, optimized_path) ==
    LET optimized_distance == calculate_path_distance(optimized_path)
        savings_distance == orig - optimized_distance
    IN [success |-> TRUE,
        original_distance |-> Round2(orig),
        optimized_distance |-> Round2(optimized_distance),
        savings_distance |-> Round2(savings_distance),
        savings_percent |->
            IF orig > 0 THEN RoundDiv(savings_distance * 10000, orig) ELSE 0,
        total_points |-> Len(pts),
        path_steps |-> Len(optimized_path),
        path_details |-> path_details(ents, emap, optimized_path),
        optimized_path |-> optimized_path,
        algorithm |-> "Nearest Neighbor TSP",
        time_savings_estimate |->
            IF orig > 0 THEN RoundDiv(savings_distance * 1000, orig) ELSE 0]

\* --------------------------------------------------------- NestingOptimizer

\* self.standard_sheets (lines 13-18).  cost_per_mm2 is 0.0001: 1 in 1/10000.
standard_sheets ==
    <<[name |-> "1000x2000mm", width |-> 1000, height |-> 2000,
       area |-> 2000000, cost_per_mm2 |-> 1],
      [name |-> "1250x2500mm", width |-> 1250, height |-> 2500,
       area |-> 3125000, cost_per_mm2 |-> 1],
      [name |-> "1500x3000mm", width |-> 1500, height |-> 3000,
       area |-> 4500000, cost_per_mm2 |-> 1],
      [name |-> "2000x4000mm", width |-> 2000, height |-> 4000,
       area |-> 8000000, cost_per_mm2 |-> 1]>>

\* spacing = 5 (line 46).
spacing == 5

\* A bounding_box dict; "has" is the set of keys present.
BBox(has, w, h, a) == [has |-> has, width |-> w, height |-> h, area |-> a]

\* bounding_box.get(key, 0).
bbox_get(bb, key) == IF key \in bb.has THEN bb[key] ELSE 0

\* The spec's example part: 480 x 980 mm.
ExamplePart == BBox({"width", "height", "area"}, 480, 980, 480 * 980)

\* A part used to more than half on the largest sheet, where it fits twice
\* as it is and three times when turned.
TurnedPart == BBox({"width", "height", "area"}, 1250, 1650, 1250 * 1650)

\* A part whose utilization of the largest sheet, 25.375%, falls between two
\* decimals.
TiePart == BBox({"width", "height", "area"}, 1000, 2030, 1000 * 2030)

\* The bounding boxes handed in: none, or a width and a height with the
\* area the extractor derives, a zero area, or no area key.
BoundingBoxes ==
    {BBox({}, 0, 0, 0), ExamplePart, TurnedPart, TiePart}
        \cup {BBox({"width", "height", "area"}, DimStep * i, DimStep * j,
                   z * (DimStep * i) * (DimStep * j)) :
                 i \in 0..MaxWidthSteps, j \in 0..MaxHeightSteps, z \in {0, 1}}
        \cup {BBox({"width", "height"}, DimStep * i, DimStep * j, 0) :
                 i \in 0..MaxWidthSteps, j \in 0..MaxHeightSteps}

\* int(n / d), d > 0: Python's int() truncates towards zero.
py_int_div(n, d) == IF n >= 0 THEN n \div d ELSE -((-n) \div d)

\* round() where the code has int(): the quotient rounded to nearest.
parts_along_rounded(sheet_len, part_len) ==
    RoundDiv(sheet_len - spacing, part_len + spacing)

\* Lines 47-48: the parts that fit along one side of the sheet.
parts_along(sheet_len, part_len) ==
    py_int_div(sheet_len - spacing, part_len + spacing)

\* The loop without its continue: no sheet is skipped.
sheet_skipped_never(total_parts) == FALSE

\* The guard of line 51.
sheet_skipped(total_parts) == total_parts = 0

\* The denominators of the utilizations compared are catalog areas, all
\* multiples of 125000 mm2, or the 1 of the initial best_utilization = 0;
\* dividing them by it keeps the cross products within TLC's integers.
AreaUnits(d) == IF d % 125000 = 0 THEN d \div 125000 ELSE d

\* a/b > c/d, for b, d > 0.
ratio_greater(a, b, c, d) == a * AreaUnits(d) > c * AreaUnits(b)

\* The percentage cut off after two decimals instead of rounded; d is a
\* catalog area, a multiple of 5000.
percent2_truncated(n, d) == (2 * n) \div (d \div 5000)

\* round((n / d) * 100, 2) in hundredths of a percent (lines 56 and 74,
\* 60 and 75): n and d integers, the division and the product in doubles.
percent2(n, d) ==
    float_round(float_mul_int(float_div_int(float_of_int(n), d), 100), 100)

\* sheet['area'] * sheet['cost_per_mm2'] (line 63); the cost is the double
\* nearest to cost_per_mm2 / 10000.
material_cost(sheet) ==
    float_mul_int(float_div_int(float_of_int(sheet.cost_per_mm2), 10000),
                  sheet.area)

\* utilization >= best_utilization: a later sheet replaces an equal earlier one.
better_or_equal_utilization(utilization, best) ==
    ~ratio_greater(best.num, best.den, utilization.num, utilization.den)

\* utilization > best_utilization (line 84); a utilization is kept exact, as
\* the fraction used_area / sheet area.
better_utilization(utilization, best) ==
    ratio_greater(utilization.num, utilization.den, best.num, best.den)

\* The two loops of _generate_layout exchanged: columns outside, rows inside.
generate_layout_column_major(parts_x, parts_y, part_w, part_h, sp) ==
    [k \in 1..(parts_x * parts_y) |->
        LET x == (k - 1) \div parts_y
            y == (k - 1) % parts_y
        IN [x |-> (sp + x * (part_w + sp)) * 100,
            y |-> (sp + y * (part_h + sp)) * 100,
            width |-> part_w, height |-> part_h,
            part_number |-> k]]

\* The grid with the parts set side by side, no spacing between them.
generate_layout_touching(parts_x, parts_y, part_w, part_h, sp) ==
    [k \in 1..(parts_x * parts_y) |->
        LET x == (k - 1) % parts_x
            y == (k - 1) \div parts_x
        IN [x |-> (sp + x * part_w) * 100,
            y |-> (sp + y * part_h) * 100,
            width |-> part_w, height |-> part_h,
            part_number |-> k]]

\* _generate_layout (lines 107-124); x and y in hundredths of a mm.
generate_layout(parts_x, parts_y, part_w, part_h, sp) ==
    [k \in 1..(parts_x * parts_y) |->
        LET x == (k - 1) % parts_x
            y == (k - 1) \div parts_x
        IN [x |-> (sp + x * (part_w + sp)) * 100,
            y |-> (sp + y * (part_h + sp)) * 100,
            width |-> part_w, height |-> part_h,
            part_number |-> k]]

\* The arrangement dict of lines 47-80.  utilization and waste_percent in
\* hundredths of a percent, waste_area in hundredths of a mm2, costs in
\* 1/10000 of a currency unit.
make_arrangement(sheet, part_w, part_h, part_a) ==
    LET parts_x == parts_along(sheet.width, part_w)
        parts_y == parts_along(sheet.height, part_h)
        total_parts == parts_x * parts_y
        used_area == total_parts * part_a
        waste_area == sheet.area - used_area
        material_cost_per_sheet == material_cost(sheet)
        cost_per_part == float_div_int(material_cost_per_sheet, total_parts)
    IN [sheet_name |-> sheet.name,
        sheet_width |-> sheet.width,
        sheet_height |-> sheet.height,
        parts_x |-> parts_x,
        parts_y |-> parts_y,
        total_parts |-> total_parts,
        utilization |-> percent2(used_area, sheet.area),
        waste_percent |-> percent2(waste_area, sheet.area),
        waste_area |-> waste_area * 100,
        cost_per_part |->
            IF total_parts > 0 THEN float_round(cost_per_part, 10000) ELSE 0,
        savings_per_part |->
            IF total_parts > 1
            THEN float_round(float_sub(material_cost_per_sheet, cost_per_part),
                             10000)
            ELSE 0,
        layout |-> generate_layout(parts_x, parts_y, part_w, part_h, spacing)]

\* The unrounded utilization of lines 55-56, as a fraction of the sheet area.
sheet_utilization(sheet, part_w, part_h, part_a) ==
    [num |-> parts_along(sheet.width, part_w)
                 * parts_along(sheet.height, part_h) * part_a,
     den |-> sheet.area]

\* The rotated grid looked at only under the utilization test of line 131.
generate_nesting_recommendations_gated(arrangement, part_w, part_h) ==
    LET rotated_parts_x == py_int_div(arrangement.sheet_width - 5, part_h + 5)
        rotated_parts_y == py_int_div(arrangement.sheet_height - 5, part_w + 5)
        rotated_total == rotated_parts_x * rotated_parts_y
    IN (IF arrangement.utilization < 5000
        THEN <<[msg |-> "Consider rotating parts", n |-> 0]>> ELSE <<>>)
       \o (IF arrangement.waste_percent > 3000
           THEN <<[msg |-> "High waste percentage", n |-> 0]>> ELSE <<>>)
       \o (IF arrangement.total_parts > 10
           THEN <<[msg |-> "Good for batch production", n |-> 0]>> ELSE <<>>)
       \o (IF arrangement.utilization < 5000
              /\ rotated_total > arrangement.total_parts
           THEN <<[msg |-> "Rotating parts would fit", n |-> rotated_total]>>
           ELSE <<>>)

\* _generate_nesting_recommendations (lines 126-148).
generate_nesting_recommendations(arrangement, part_w, part_h) ==
    LET rotated_parts_x == py_int_div(arrangement.sheet_width - 5, part_h + 5)
        rotated_parts_y == py_int_div(arrangement.sheet_height - 5, part_w + 5)
        rotated_total == rotated_parts_x * rotated_parts_y
    IN (IF arrangement.utilization < 5000
        THEN <<[msg |-> "Consider rotating parts", n |-> 0]>> ELSE <<>>)
       \o (IF arrangement.waste_percent > 3000
           THEN <<[msg |-> "High waste percentage", n |-> 0]>> ELSE <<>>)
       \o (IF arrangement.total_parts > 10
           THEN <<[msg |-> "Good for batch production", n |-> 0]>> ELSE <<>>)
       \o (IF rotated_total > arrangement.total_parts
           THEN <<[msg |-> "Rotating parts would fit", n |-> rotated_total]>>
           ELSE <<>>)

\* The guard of line 31.
invalid_dimensions(part_w, part_h) == part_w = 0 \/ part_h = 0

\* The return without the test of line 89, where line 96 would subscript
\* None: a TypeError instead of a result.
nesting_result_raising(has_best, best, all, part_w, part_h, part_a) ==
    IF ~has_best
    THEN [raised |-> "TypeError"]
    ELSE [success |-> TRUE,
          part_dimensions |-> [width |-> part_w * 100, height |-> part_h * 100,
                               area |-> part_a * 100],
          best_arrangement |-> best,
          all_arrangements |-> all,
          recommendations |->
              generate_nesting_recommendations(best, part_w, part_h)]

\* The return without the test of line 89: success whatever was found.
nesting_result_unchecked(has_best, best, all, part_w, part_h, part_a) ==
    [success |-> TRUE,
     part_dimensions |-> [width |-> part_w * 100, height |-> part_h * 100,
                          area |-> part_a * 100],
     best_arrangement |-> best,
     all_arrangements |-> all,
     recommendations |->
         IF has_best THEN generate_nesting_recommendations(best, part_w, part_h)
         ELSE <<>>]

\* The return with the rotation applied: when the rotated grid fits more
\* parts the plan returned is the rotated one.
nesting_result_rotation_applied(has_best, best, all, part_w, part_h, part_a) ==
    IF ~has_best
    THEN [success |-> FALSE, error |-> "Part too large for standard sheets"]
    ELSE LET rx == py_int_div(best.sheet_width - 5, part_h + 5)
             ry == py_int_div(best.sheet_height - 5, part_w + 5)
             turned == [best EXCEPT !.parts_x = rx, !.parts_y = ry,
                                    !.total_parts = rx * ry,
                                    !.layout = generate_layout(rx, ry, part_h,
                                                               part_w, spacing)]
         IN [success |-> TRUE,
             part_dimensions |-> [width |-> part_w * 100,
                                  height |-> part_h * 100,
                                  area |-> part_a * 100],
             best_arrangement |->
                 IF rx * ry > best.total_parts THEN turned ELSE best,
             all_arrangements |-> all,
             recommendations |->
                 generate_nesting_recommendations(best, part_w, part_h)]

\* The returned dict of lines 89-105; has_best is the truth value of
\* best_arrangement.
nesting_result(has_best, best, all, part_w, part_h, part_a) ==
    IF ~has_best
    THEN [success |-> FALSE, error |-> "Part too large for standard sheets"]
    ELSE [success |-> TRUE,
          part_dimensions |-> [width |-> part_w * 100, height |-> part_h * 100,
                               area |-> part_a * 100],
          best_arrangement |-> best,
          all_arrangements |-> all,
          recommendations |->
              generate_nesting_recommendations(best, part_w, part_h)]

\* ------------------------------------------------------------ initial states

\* A dict not yet returned.
NoResult == [status |-> "pending"]

\* Python's None, the value of best_sheet and best_arrangement before a
\* sheet is kept.
None == [status |-> "none"]

\* ------------------------------------------------------------ CADProcessor
\* Numbers of the extractor.  A drawing coordinate, a radius or an axis
\* length is an integer count of 1/1000 mm; an angle is whole degrees at the
\* entity and a count of 1/10000 rad after math.radians; every length is a
\* count of 1/10000 mm, a length that went through round(v, 2) being a
\* multiple of 100; the other rounded fields are counts of hundredths.

\* math.pi and 2 * math.pi in 1/10000 rad.
Pi4 == 31416
TwoPi4 == 62832

\* range(51) of _approximate_spline_length: the parameters are i/50.
SplineSamples == 51

\* The root of n is twice the root of n \div 4, or one more.
sqrt_step(r, n) == IF (r + 1) * (r + 1) <= n THEN r + 1 ELSE r

\* math.sqrt(n) of a natural n, truncated to an integer.
RECURSIVE int_sqrt(_)
int_sqrt(n) == IF n < 2 THEN n ELSE sqrt_step(2 * int_sqrt(n \div 4), n)

\* math.sqrt(dx*dx + dy*dy) for dx, dy in 1/1000 mm: 1/10000 mm, truncated.
hypot4(dx, dy) == int_sqrt(100 * (dx * dx + dy * dy))

\* round(v, 2) of a v in 1/10000 units, in 1/10000 units again.
round2_length(v) == 100 * Round2(v)

\* round(x, 2) of a coordinate in 1/1000 mm: hundredths.
round2_coord(x) == RoundDiv(x, 10)

round2_point(p) == <<round2_coord(p[1]), round2_coord(p[2])>>

\* f[lo] + ... + f[hi].
RECURSIVE SumRange(_, _, _)
SumRange(f, lo, hi) ==
    IF lo > hi THEN 0
    ELSE IF lo = hi THEN f[lo]
    ELSE SumRange(f, lo, (lo + hi) \div 2) + SumRange(f, (lo + hi) \div 2 + 1, hi)

\* sum(seq) of a list of numbers.
SumSeq(seq) == SumRange(seq, 1, Len(seq))

\* min(seq) and max(seq) of a non-empty list of numbers.
MinSeq(seq) == CHOOSE v \in {seq[i] : i \in 1..Len(seq)} :
                   \A i \in 1..Len(seq) : v <= seq[i]
MaxSeq(seq) == CHOOSE v \in {seq[i] : i \in 1..Len(seq)} :
                   \A i \in 1..Len(seq) : v >= seq[i]

\* line.dxf.end of line 244 on a LINE that has no end point: the
\* AttributeError leaves the loop for the except clause of line 238.
attribute_missing(ent) == ent.dxftype = "LINE" /\ "end" \notin DOMAIN ent

\* _calculate_line_length (lines 242-246).
calculate_line_length(line) ==
    hypot4(line.end[1] - line.start[1], line.end[2] - line.start[2])

\* math.radians of whole degrees: 1/10000 rad, truncated.
radians(deg) == (deg * 1745329) \div 10000

\* The angle the arc is taken to sweep (lines 250-258): 2 * pi is added to
\* the end angle only when it is below the start angle.
arc_angle_diff(arc) ==
    LET start_angle == radians(arc.start_angle)
        end_angle == radians(arc.end_angle)
    IN IF end_angle < start_angle
       THEN end_angle + TwoPi4 - start_angle
       ELSE end_angle - start_angle

\* _calculate_arc_length (lines 248-259): radius * angle_diff.
calculate_arc_length(arc) == (arc.radius * arc_angle_diff(arc)) \div 1000

\* _calculate_circle_length (lines 261-263).
calculate_circle_length(circle) == (TwoPi4 * circle.radius) \div 1000

\* The distances between the consecutive points of a list (the loop bodies
\* of lines 270-274 and 285-288).
segment_lengths(pts) ==
    [i \in 1..(Len(pts) - 1) |->
        hypot4(pts[i + 1][1] - pts[i][1], pts[i + 1][2] - pts[i][2])]

\* The length with the segment from the last point back to the first added
\* for a closed polyline.
calculate_polyline_length_closing(polyline) ==
    SumSeq(segment_lengths(polyline.vertices))
        + IF polyline.closed /\ polyline.vertices # <<>>
          THEN hypot4(polyline.vertices[1][1]
                          - polyline.vertices[Len(polyline.vertices)][1],
                      polyline.vertices[1][2]
                          - polyline.vertices[Len(polyline.vertices)][2])
          ELSE 0

\* _calculate_polyline_length (lines 265-276): the listed points only.
calculate_polyline_length(polyline) ==
    SumSeq(segment_lengths(polyline.vertices))

\* _approximate_spline_length (lines 278-289).  A spline whose point()
\* raises has the empty curve.
approximate_spline_length(spline) ==
    IF spline.curve = <<>> THEN 0
    ELSE SumSeq(segment_lengths([i \in 1..SplineSamples |-> spline.curve[i - 1]]))

\* _approximate_ellipse_length (lines 291-299), Ramanujan's formula in 1/10000
\* units; the ratio is a count of 1/10000.  The division by (a + b) ** 2
\* raises for a + b = 0 and the except clause returns 0.0.
approximate_ellipse_length(ellipse) ==
    LET a == ellipse.major_axis * 5
        b == (a * ellipse.ratio) \div 10000
        h == ((((a - b) * 10000) \div (a + b)) * (((a - b) * 10000) \div (a + b)))
                 \div 10000
        root == int_sqrt((40000 - 3 * h) * 10000)
        term == (3 * h * 10000) \div (100000 + root)
    IN IF a + b = 0 \/ 40000 - 3 * h < 0 THEN 0
       ELSE (((((a + b) * (10000 + term)) \div 10000) * Pi4) \div 10000)

\* ------------------------------------------------ the entities of a drawing

\* Drawing coordinates are multiples of CoordUnit (1/1000 mm): 1.004 mm is
\* not a whole number of hundredths, so that round(v, 2) changes values.
CoordUnit == 1004

P00 == <<0, 0>>
PX == <<CoordUnit, 0>>
PY == <<0, CoordUnit>>
PNeg == <<-CoordUnit, 2 * CoordUnit>>

\* The radius of the modelled arcs and circles: 1 mm.
UnitRadius == 1000

\* Start and end angles in degrees: zero, a right angle, more than a turn.
ArcAngles == {0, 90, 400}

DxfLine(layer, s, e) ==
    [dxftype |-> "LINE", layer |-> layer, start |-> s, end |-> e]

DxfArc(layer, c, r, sa, ea) ==
    [dxftype |-> "ARC", layer |-> layer, center |-> c, radius |-> r,
     start_angle |-> sa, end_angle |-> ea]

DxfCircle(layer, c, r) ==
    [dxftype |-> "CIRCLE", layer |-> layer, center |-> c, radius |-> r]

\* kind is LWPOLYLINE (get_points(), closed) or POLYLINE (points, is_closed).
DxfPolyline(kind, layer, pts, closed) ==
    [dxftype |-> kind, layer |-> layer, vertices |-> pts, closed |-> closed]

\* curve[i] is spline.point(i/50); the empty curve is a spline whose point()
\* raises.
DxfSpline(layer, degree, curve) ==
    [dxftype |-> "SPLINE", layer |-> layer, degree |-> degree, curve |-> curve]

\* major_axis is the magnitude of the major axis vector.
DxfEllipse(layer, c, major, ratio) ==
    [dxftype |-> "ELLIPSE", layer |-> layer, center |-> c,
     major_axis |-> major, ratio |-> ratio]

\* None as an insertion point.
NoInsert == <<>>

\* kind is TEXT or MTEXT; insert is None when the attribute is missing.
DxfText(kind, layer, text, insert) ==
    [dxftype |-> kind, layer |-> layer, text |-> text, insert |-> insert]

DxfInsert(layer, name, insert) ==
    [dxftype |-> "INSERT", layer |-> layer, name |-> name, insert |-> insert]

\* A kind process_dxf has no branch for.
DxfPoint(layer, location) ==
    [dxftype |-> "POINT", layer |-> layer, location |-> location]

\* The straight run from p to q sampled at i/50.
StraightCurve(p, q) ==
    [i \in 0..(SplineSamples - 1) |->
        <<p[1] + ((q[1] - p[1]) * i) \div (SplineSamples - 1),
          p[2] + ((q[2] - p[2]) * i) \div (SplineSamples - 1)>>]

DxfEntities ==
    {DxfLine("0", PX, PY), DxfLine("CUT", PX, PY), DxfLine("0", P00, PX),
     DxfLine("0", P00, P00)}
        \cup {DxfArc("0", PX, UnitRadius, sa, ea) : sa \in ArcAngles, ea \in ArcAngles}
        \cup {DxfCircle("CUT", PY, UnitRadius)}
        \cup {DxfPolyline("LWPOLYLINE", "0", <<P00, PX, PY>>, closed) :
                  closed \in BOOLEAN}
        \cup {DxfPolyline("POLYLINE", "CUT", <<P00, PNeg>>, FALSE)}
        \cup {DxfSpline("0", 3, <<>>), DxfSpline("0", 3, StraightCurve(P00, PX))}
        \cup {DxfEllipse("0", P00, 2 * CoordUnit, 5000), DxfEllipse("0", PX, 0, 5000)}
        \cup {DxfText("TEXT", "0", "A", PX), DxfText("MTEXT", "CUT", "B", NoInsert)}
        \cup {DxfInsert("0", "BLOCK", PY)}
        \cup {DxfPoint("0", P00)}
        \cup {[dxftype |-> "LINE", layer |-> "0", start |-> P00]}

\* A modelspace: up to MaxStream entities in order.
Modelspaces == UNION {[1..n -> DxfEntities] : n \in 0..MaxStream}

\* ------------------------------------------------------------- process_dxf

\* An empty dict.
EmptyDict == <<>>

\* geometry_data as lines 28-46 build it.  The bounding box starts at
\* infinities and has no width, height or area.
initial_geometry_data ==
    [total_length |-> 0,
     line_count |-> 0, arc_count |-> 0, circle_count |-> 0,
     polyline_count |-> 0, spline_count |-> 0, ellipse_count |-> 0,
     text_count |-> 0, block_ref_count |-> 0,
     layer_stats |-> EmptyDict,
     entities |-> <<>>,
     bounding_box |-> [min_x |-> "inf", min_y |-> "inf",
                       max_x |-> "-inf", max_y |-> "-inf"],
     entity_lengths |-> [lines |-> <<>>, arcs |-> <<>>, circles |-> <<>>,
                         polylines |-> <<>>, splines |-> <<>>,
                         ellipses |-> <<>>],
     complexity_metrics |-> EmptyDict,
     file_info |-> EmptyDict]

\* Lines 53-54: setdefault, then count += 1, for every entity of the stream.
count_layer(stats, layer_name) ==
    [l \in DOMAIN stats \cup {layer_name} |->
        IF l = layer_name
        THEN IF l \in DOMAIN stats
             THEN [stats[l] EXCEPT !.count = @ + 1]
             ELSE [count |-> 1, length |-> 0]
        ELSE stats[l]]

\* The updates of a measured kind without the one of the running total.
measured_untotalled(data, layer_name, length, count_key, lengths_key, dict) ==
    [data EXCEPT ![count_key] = @ + 1,
                 !.layer_stats[layer_name].length = @ + length,
                 !.entity_lengths[lengths_key] = Append(@, length),
                 !.entities = Append(@, dict)]

\* The updates every branch of a measured kind makes (lines 58-61 for LINE):
\* the running total, the kind's count, the layer's length, the kind's list
\* of lengths, and the entity dict appended to 'entities'.
measured(data, layer_name, length, count_key, lengths_key, dict) ==
    [data EXCEPT !.total_length = @ + length,
                 ![count_key] = @ + 1,
                 !.layer_stats[layer_name].length = @ + length,
                 !.entity_lengths[lengths_key] = Append(@, length),
                 !.entities = Append(@, dict)]

\* The updates of the branches of the kinds without a length (lines 170-191).
unmeasured(data, count_key, dict) ==
    [data EXCEPT ![count_key] = @ + 1,
                 !.entities = Append(@, dict)]

\* round(math.pi * radius ** 2, 2) of line 103: hundredths of mm2.
circle_area(radius) == Round2((((radius * radius) \div 100) * Pi4) \div 10000)

\* The dict a branch appends to 'entities'.  Only a LINE keeps its length
\* unrounded (line 66); TEXT, MTEXT and INSERT have no 'length' key.
entity_dict(ent, length) ==
    CASE ent.dxftype = "LINE" ->
           [type |-> "LINE", length |-> length,
            start |-> round2_point(ent.start), end |-> round2_point(ent.end),
            layer |-> ent.layer]
      [] ent.dxftype = "ARC" ->
           [type |-> "ARC", length |-> round2_length(length),
            center |-> round2_point(ent.center),
            radius |-> round2_coord(ent.radius),
            start_angle |-> ent.start_angle, end_angle |-> ent.end_angle,
            layer |-> ent.layer]
      [] ent.dxftype = "CIRCLE" ->
           [type |-> "CIRCLE", length |-> round2_length(length),
            center |-> round2_point(ent.center),
            radius |-> round2_coord(ent.radius),
            area |-> circle_area(ent.radius),
            layer |-> ent.layer]
      [] ent.dxftype \in {"LWPOLYLINE", "POLYLINE"} ->
           [type |-> ent.dxftype, length |-> round2_length(length),
            point_count |-> Len(ent.vertices), is_closed |-> ent.closed,
            layer |-> ent.layer]
      [] ent.dxftype = "SPLINE" ->
           [type |-> "SPLINE", length |-> round2_length(length),
            degree |-> ent.degree, layer |-> ent.layer]
      [] ent.dxftype = "ELLIPSE" ->
           [type |-> "ELLIPSE", length |-> round2_length(length),
            center |-> round2_point(ent.center),
            major_axis |-> round2_coord(ent.major_axis),
            ratio |-> ent.ratio, layer |-> ent.layer]
      [] ent.dxftype \in {"TEXT", "MTEXT"} ->
           [type |-> ent.dxftype, text |-> ent.text,
            insert |-> IF ent.insert # NoInsert THEN round2_point(ent.insert)
                       ELSE NoInsert,
            layer |-> ent.layer]
      [] ent.dxftype = "INSERT" ->
           [type |-> "BLOCK_REFERENCE", name |-> ent.name,
            insert |-> round2_point(ent.insert), layer |-> ent.layer]

\* The length a branch computes for its entity (lines 57, 73, 91, 108, 124,
\* 140, 153).
entity_length(ent) ==
    CASE ent.dxftype = "LINE" -> calculate_line_length(ent)
      [] ent.dxftype = "ARC" -> calculate_arc_length(ent)
      [] ent.dxftype = "CIRCLE" -> calculate_circle_length(ent)
      [] ent.dxftype \in {"LWPOLYLINE", "POLYLINE"} ->
           calculate_polyline_length(ent)
      [] ent.dxftype = "SPLINE" -> approximate_spline_length(ent)
      [] ent.dxftype = "ELLIPSE" -> approximate_ellipse_length(ent)

\* The count and the list of lengths of a kind.
count_key_of(kind) ==
    CASE kind = "LINE" -> "line_count"
      [] kind = "ARC" -> "arc_count"
      [] kind = "CIRCLE" -> "circle_count"
      [] kind \in {"LWPOLYLINE", "POLYLINE"} -> "polyline_count"
      [] kind = "SPLINE" -> "spline_count"
      [] kind = "ELLIPSE" -> "ellipse_count"
      [] kind \in {"TEXT", "MTEXT"} -> "text_count"
      [] kind = "INSERT" -> "block_ref_count"

lengths_key_of(kind) ==
    CASE kind = "LINE" -> "lines"
      [] kind = "ARC" -> "arcs"
      [] kind = "CIRCLE" -> "circles"
      [] kind \in {"LWPOLYLINE", "POLYLINE"} -> "polylines"
      [] kind = "SPLINE" -> "splines"
      [] kind = "ELLIPSE" -> "ellipses"

\* The body of the for loop (lines 52-191) on geometry_data: the layer is
\* counted first, whatever the kind; a kind without a branch changes
\* nothing else.
process_entity(data, ent) ==
    LET counted == [data EXCEPT !.layer_stats = count_layer(@, ent.layer)]
    IN IF ent.dxftype \in {"LINE", "ARC", "CIRCLE", "LWPOLYLINE", "POLYLINE",
                           "SPLINE", "ELLIPSE"}
       THEN measured(counted, ent.layer, entity_length(ent),
                     count_key_of(ent.dxftype), lengths_key_of(ent.dxftype),
                     entity_dict(ent, entity_length(ent)))
       ELSE IF ent.dxftype \in {"TEXT", "MTEXT", "INSERT"}
       THEN unmeasured(counted, count_key_of(ent.dxftype), entity_dict(ent, 0))
       ELSE counted

\* The points added when an arc or a circle counts with the corners of the
\* square its radius sweeps.
reference_points_swept(ent) ==
    CASE ent.dxftype = "LINE" -> <<ent.start, ent.end>>
      [] ent.dxftype \in {"ARC", "CIRCLE"} ->
           <<<<ent.center[1] - ent.radius, ent.center[2] - ent.radius>>,
             <<ent.center[1] + ent.radius, ent.center[2] + ent.radius>>>>
      [] ent.dxftype = "ELLIPSE" -> <<ent.center>>
      [] ent.dxftype \in {"LWPOLYLINE", "POLYLINE"} -> ent.vertices
      [] ent.dxftype \in {"TEXT", "MTEXT"} ->
           IF ent.insert # NoInsert THEN <<ent.insert>> ELSE <<>>
      [] ent.dxftype = "INSERT" -> <<ent.insert>>
      [] OTHER -> <<>>

\* What the body of the for loop adds to all_points.
reference_points(ent) ==
    CASE ent.dxftype = "LINE" -> <<ent.start, ent.end>>
      [] ent.dxftype \in {"ARC", "CIRCLE", "ELLIPSE"} -> <<ent.center>>
      [] ent.dxftype \in {"LWPOLYLINE", "POLYLINE"} -> ent.vertices
      [] ent.dxftype \in {"TEXT", "MTEXT"} ->
           IF ent.insert # NoInsert THEN <<ent.insert>> ELSE <<>>
      [] ent.dxftype = "INSERT" -> <<ent.insert>>
      [] OTHER -> <<>>

\* The box with the width squared for its area.
calculate_bounding_box_squared(box, pts) ==
    IF pts = <<>> THEN box
    ELSE LET x_coords == [i \in 1..Len(pts) |-> pts[i][1]]
             y_coords == [i \in 1..Len(pts) |-> pts[i][2]]
             w == MaxSeq(x_coords) - MinSeq(x_coords)
             h == MaxSeq(y_coords) - MinSeq(y_coords)
         IN [min_x |-> round2_coord(MinSeq(x_coords)),
             min_y |-> round2_coord(MinSeq(y_coords)),
             max_x |-> round2_coord(MaxSeq(x_coords)),
             max_y |-> round2_coord(MaxSeq(y_coords)),
             width |-> round2_coord(w),
             height |-> round2_coord(h),
             area |-> RoundDiv(w * w, 10000)]

\* Lines 194-205: the box of the reference points, every field rounded on
\* its own from the unrounded extremes.  Without reference points the
\* initial box stays.
calculate_bounding_box(box, pts) ==
    IF pts = <<>> THEN box
    ELSE LET x_coords == [i \in 1..Len(pts) |-> pts[i][1]]
             y_coords == [i \in 1..Len(pts) |-> pts[i][2]]
             w == MaxSeq(x_coords) - MinSeq(x_coords)
             h == MaxSeq(y_coords) - MinSeq(y_coords)
         IN [min_x |-> round2_coord(MinSeq(x_coords)),
             min_y |-> round2_coord(MinSeq(y_coords)),
             max_x |-> round2_coord(MaxSeq(x_coords)),
             max_y |-> round2_coord(MaxSeq(y_coords)),
             width |-> round2_coord(w),
             height |-> round2_coord(h),
             area |-> RoundDiv(w * h, 10000)]

\* ------------------------------------------------ _calculate_complexity_score
\* The score is held in hundredths until the final round(.., 1), whose
\* result is a count of tenths.  Areas are hundredths of mm2.

Min(a, b) == IF a < b THEN a ELSE b
Max(a, b) == IF a > b THEN a ELSE b

\* dict.get('area', 0) of a bounding box.
area_of(box) == IF "area" \in DOMAIN box THEN box.area ELSE 0

\* Lines 310-317.
total_entities(data) ==
    data.line_count + data.arc_count + data.circle_count
        + data.polyline_count + data.spline_count + data.ellipse_count

\* Lines 323-330: the kinds present.
entity_types(data) ==
    Cardinality({k \in {"line_count", "arc_count", "circle_count",
                        "polyline_count", "spline_count", "ellipse_count"} :
                    data[k] > 0})

\* Line 320: min(30, total_entities / 10).
count_factor(total) == Min(3000, 10 * total)

\* Line 331: entity_types * 3.33.
diversity_factor(types) == 333 * types

\* Lines 334-335: min(15, layer_count * 2).
layer_factor(layer_count) == Min(1500, 200 * layer_count)

\* Lines 338-339: min(15, spline_count / 2) when there is a spline.
spline_factor(spline_count) ==
    IF spline_count > 0 THEN Min(1500, 50 * spline_count) ELSE 0

\* The tiers without the test of line 343: the lowest tier for any area.
size_factor_unguarded(area) ==
    IF area > 100000000 THEN 1000
    ELSE IF area > 10000000 THEN 700
    ELSE IF area > 1000000 THEN 500
    ELSE 200

\* Lines 343-352: the tier of the area, nothing for no area.
size_factor(area) ==
    IF area > 0
    THEN IF area > 100000000 THEN 1000
         ELSE IF area > 10000000 THEN 700
         ELSE IF area > 1000000 THEN 500
         ELSE 200
    ELSE 0

\* The sum of the factors that are whole hundredths.
whole_factors(data) ==
    count_factor(total_entities(data)) + diversity_factor(entity_types(data))
        + layer_factor(Cardinality(DOMAIN data.layer_stats))
        + spline_factor(data.spline_count) + size_factor(area_of(data.bounding_box))

\* The integers nearest to n / d, both neighbours at an exact half: that is
\* where the binary float decides what round() returns.
rounded_quotients(n, d) ==
    IF 2 * (n % d) > d THEN {n \div d + 1}
    ELSE IF 2 * (n % d) < d THEN {n \div d}
    ELSE {n \div d, n \div d + 1}

\* _calculate_complexity_score (lines 305-362): the values
\* round(min(100, score), 1) can take, in tenths.  Lines 356-360: a
\* density = total_entities / area above 1 adds min(10, density * 2), in
\* hundredths 20000 * total / area, a fraction over the area.
calculate_complexity_score(data) ==
    LET total == total_entities(data)
        area == area_of(data.bounding_box)
        whole == whole_factors(data)
    IN IF ~(area > 0 /\ 100 * total > area)
       THEN rounded_quotients(Min(10000, whole), 10)
       ELSE IF 20 * total >= area
       THEN rounded_quotients(Min(10000, whole + 1000), 10)
       ELSE IF whole * area + 20000 * total >= 10000 * area
       THEN {1000}
       ELSE rounded_quotients(whole * area + 20000 * total, 10 * area)

\* ------------------------------------------------- the end of process_dxf

\* round(sum(lengths) / len(lengths), 2) of a non-empty list.
average_length(lengths) == 100 * RoundDiv(SumSeq(lengths), 100 * Len(lengths))

\* The circumferences 2 * pi * r of the rounded radii stored with the
\* circles of 'entities' (line 219).
circle_circumferences(ents) ==
    [i \in 1..Len(ents) |->
        IF ents[i].type = "CIRCLE" THEN (TwoPi4 * ents[i].radius) \div 100
        ELSE 0]

\* Lines 214-224, with the score one of the values the rounding can give.
complexity_metrics(data, complexity_score) ==
    LET lines == data.entity_lengths.lines
        arcs == data.entity_lengths.arcs
    IN [total_entities |-> total_entities(data),
        entity_density |->
            IF data.bounding_box.area > 0
            THEN RoundDiv(1000000 * total_entities(data),
                          Max(data.bounding_box.area, 100))
            ELSE 0,
        avg_line_length |-> IF lines # <<>> THEN average_length(lines) ELSE 0,
        avg_arc_length |-> IF arcs # <<>> THEN average_length(arcs) ELSE 0,
        avg_circle_radius |->
            IF data.circle_count > 0
            THEN 100 * RoundDiv(SumSeq(circle_circumferences(data.entities)),
                                100 * Max(data.circle_count, 1))
            ELSE 0,
        max_line_length |->
            IF lines # <<>> THEN round2_length(MaxSeq(lines)) ELSE 0,
        min_line_length |->
            IF lines # <<>> THEN round2_length(MinSeq(lines)) ELSE 0,
        layer_count |-> Cardinality(DOMAIN data.layer_stats),
        complexity_score |-> complexity_score]

\* Line 216 reads bounding_box['area'], which the initial box does not have:
\* the KeyError is caught at line 238 and raised again as an Exception.
area_missing(box) == "area" \notin DOMAIN box

\* Lines 194-236: the record process_dxf returns.  The version and units of
\* file_info are copied from the document and are not part of the model.
finished_geometry_data(data, pts, complexity_score) ==
    LET boxed == [data EXCEPT !.bounding_box = calculate_bounding_box(@, pts)]
    IN [boxed EXCEPT
           !.complexity_metrics = complexity_metrics(boxed, complexity_score),
           !.file_info = [total_layers |-> Cardinality(DOMAIN data.layer_stats)],
           !.total_length = round2_length(@)]

\* ------------------------------------------------------------- idle states

PathIdle ==
    /\ entities = <<>>
    /\ ppc = "idle"
    /\ points = <<>>
    /\ entity_map = {}
    /\ original_distance = 0
    /\ unvisited = <<>>
    /\ path = <<>>
    /\ current = NoResult
    /\ presult = NoResult

NestIdle ==
    /\ bounding_box = BBox({}, 0, 0, 0)
    /\ npc = "idle"
    /\ sheet_i = 1
    /\ best_utilization = [num |-> 0, den |-> 1]
    /\ best_sheet = None
    /\ best_arrangement = None
    /\ results = <<>>
    /\ nresult = NoResult

ExtractIdle ==
    /\ msp = <<>>
    /\ xpc = "idle"
    /\ entity_i = 1
    /\ geometry_data = initial_geometry_data
    /\ all_points = <<>>
    /\ xresult = NoResult

ScoreIdle ==
    /\ score_data = NoResult
    /\ spc = "idle"
    /\ score = 0

TwoOptIdle ==
    /\ tpc = "idle"
    /\ input_path = <<>>
    /\ best_path = <<>>
    /\ best_distance = 0
    /\ improved = FALSE
    /\ passes = 0

\* ------------------------------------------- calculate_tsp_path, step by step

PathInit ==
    /\ NestIdle
    /\ ExtractIdle
    /\ ScoreIdle
    /\ entities \in Drawings
    /\ ppc = "start"
    /\ points = <<>>
    /\ entity_map = {}
    /\ original_distance = 0
    /\ unvisited = <<>>
    /\ path = <<>>
    /\ current = NoResult
    /\ presult = NoResult
    /\ calls = <<>>
    /\ TwoOptIdle

\* calculate_tsp_path, lines 21-74: extract the waypoints and return the
\* failure dict when there are fewer than two.
TspTooFew ==
    /\ ppc = "start"
    /\ not_enough_points(extract_points(entities, Len(entities)))
    /\ points' = extract_points(entities, Len(entities))
    /\ entity_map' = extract_entity_map(entities)
    /\ presult' = [success |-> FALSE,
                   error |-> "Not enough points for path optimization"]
    /\ ppc' = "done"
    /\ UNCHANGED <<entities, original_distance, unvisited, path, current, nvars, xvars, svars, calls, tvars>>

\* calculate_tsp_path, lines 21-80 and 146-152: extract the waypoints,
\* compute the baseline and enter _nearest_neighbor_tsp.
TspBegin ==
    /\ ppc = "start"
    /\ ~not_enough_points(extract_points(entities, Len(entities)))
    /\ points' = extract_points(entities, Len(entities))
    /\ entity_map' = extract_entity_map(entities)
    /\ original_distance' = calculate_original_distance(entities)
    /\ unvisited' = Tail(points')
    /\ path' = <<Head(points')>>
    /\ current' = Head(points')
    /\ ppc' = "nn"
    /\ UNCHANGED <<entities, presult, nvars, xvars, svars, calls, tvars>>

\* One iteration of the while loop of _nearest_neighbor_tsp (lines 154-168).
NearestNeighborStep ==
    /\ ppc = "nn"
    /\ unvisited # <<>>
    /\ LET nearest_idx == nearest_index(current, unvisited) IN
        /\ current' = unvisited[nearest_idx]
        /\ unvisited' = list_pop(unvisited, nearest_idx)
        /\ path' = Append(path, unvisited[nearest_idx])
    /\ UNCHANGED <<entities, ppc, points, entity_map, original_distance, presult,
                   nvars, xvars, svars, calls, tvars>>

\* The loop has ended: lines 170 and 82-114.
TspReturn ==
    /\ ppc = "nn"
    /\ unvisited = <<>>
    /\ presult' = tsp_result(entities, entity_map, points, original_distance, path)
    /\ ppc' = "done"
    /\ UNCHANGED <<entities, points, entity_map, original_distance,
                   unvisited, path, current, nvars, xvars, svars, calls, tvars>>

PathNext == TspTooFew \/ TspBegin \/ NearestNeighborStep \/ TspReturn

SpecPath == PathInit /\ [][PathNext]_vars

\* ------------------------------------ calculate_optimal_nesting, step by step

NestInit ==
    /\ PathIdle
    /\ ExtractIdle
    /\ ScoreIdle
    /\ bounding_box \in BoundingBoxes
    /\ npc = "start"
    /\ sheet_i = 1
    /\ best_utilization = [num |-> 0, den |-> 1]
    /\ best_sheet = None
    /\ best_arrangement = None
    /\ results = <<>>
    /\ nresult = NoResult
    /\ calls = <<>>
    /\ TwoOptIdle

\* Lines 27-29.
part_width == bbox_get(bounding_box, "width")
part_height == bbox_get(bounding_box, "height")
part_area == bbox_get(bounding_box, "area")

\* Lines 26-35: a zero width or height is refused.
NestInvalid ==
    /\ npc = "start"
    /\ invalid_dimensions(part_width, part_height)
    /\ nresult' = [success |-> FALSE, error |-> "Invalid part dimensions"]
    /\ npc' = "done"
    /\ UNCHANGED <<bounding_box, sheet_i, best_utilization, best_sheet,
                   best_arrangement, results, pvars, xvars, svars, calls, tvars>>

\* Lines 26-42: the dimensions are accepted and the loop starts.
NestBegin ==
    /\ npc = "start"
    /\ ~invalid_dimensions(part_width, part_height)
    /\ npc' = "loop"
    /\ UNCHANGED <<bounding_box, sheet_i, best_utilization, best_sheet,
                   best_arrangement, results, nresult, pvars, xvars, svars, calls, tvars>>

\* An iteration of the for loop that ends at the continue of line 52.
NestSkipSheet ==
    /\ npc = "loop"
    /\ sheet_i <= Len(standard_sheets)
    /\ sheet_skipped(parts_along(standard_sheets[sheet_i].width, part_width)
                       * parts_along(standard_sheets[sheet_i].height, part_height))
    /\ sheet_i' = sheet_i + 1
    /\ UNCHANGED <<bounding_box, npc, best_utilization, best_sheet,
                   best_arrangement, results, nresult, pvars, xvars, svars, calls, tvars>>

\* A full iteration of the for loop (lines 44-87).
NestEvalSheet ==
    /\ npc = "loop"
    /\ sheet_i <= Len(standard_sheets)
    /\ LET sheet == standard_sheets[sheet_i]
           arrangement == make_arrangement(sheet, part_width, part_height,
                                           part_area)
           utilization == sheet_utilization(sheet, part_width, part_height,
                                            part_area)
       IN /\ ~sheet_skipped(arrangement.total_parts)
          /\ results' = Append(results, arrangement)
          /\ IF better_utilization(utilization, best_utilization)
             THEN /\ best_utilization' = utilization
                  /\ best_sheet' = sheet
                  /\ best_arrangement' = arrangement
             ELSE UNCHANGED <<best_utilization, best_sheet, best_arrangement>>
    /\ sheet_i' = sheet_i + 1
    /\ UNCHANGED <<bounding_box, npc, nresult, pvars, xvars, svars, calls, tvars>>

\* The loop has ended: lines 89-105.
NestReturn ==
    /\ npc = "loop"
    /\ sheet_i > Len(standard_sheets)
    /\ nresult' = nesting_result(best_arrangement # None, best_arrangement,
                                 results, part_width, part_height, part_area)
    /\ npc' = "done"
    /\ UNCHANGED <<bounding_box, sheet_i, best_utilization, best_sheet,
                   best_arrangement, results, pvars, xvars, svars, calls, tvars>>

NestNext ==
    NestInvalid \/ NestBegin \/ NestSkipSheet \/ NestEvalSheet \/ NestReturn

SpecNest == NestInit /\ [][NestNext]_vars

\* A call of either optimizer.
SpecOptimizers == (PathInit \/ NestInit) /\ [][PathNext \/ NestNext]_vars

\* ------------------------------- several calls on one optimizer instance

\* The records handed to the calls of one instance.
RepeatDrawings ==
    {<<>>, ExampleAB,
     <<CircleEntity(<<0, 1>>), LineEntity(<<1, 0>>, <<0, 0>>)>>}

RepeatBoxes == {BBox({}, 0, 0, 0), ExamplePart, TurnedPart}

\* calculate_tsp_path is called again on the PathOptimizer (whose only
\* attribute is the logger of line 13): lines 24-25 make new locals.
PathCall ==
    /\ ppc = "done"
    /\ Len(calls) + 1 < MaxCalls
    /\ calls' = Append(calls, [input |-> entities, output |-> presult])
    /\ entities' \in RepeatDrawings
    /\ ppc' = "start"
    /\ points' = <<>>
    /\ entity_map' = {}
    /\ original_distance' = 0
    /\ unvisited' = <<>>
    /\ path' = <<>>
    /\ current' = NoResult
    /\ presult' = NoResult
    /\ UNCHANGED <<nvars, xvars, svars, tvars>>

\* A further call that keeps best_utilization, as an attribute of the
\* instance would be kept.
NestCallKeepingBest ==
    /\ npc = "done"
    /\ Len(calls) + 1 < MaxCalls
    /\ calls' = Append(calls, [input |-> bounding_box, output |-> nresult])
    /\ bounding_box' \in RepeatBoxes
    /\ npc' = "start"
    /\ sheet_i' = 1
    /\ best_sheet' = None
    /\ best_arrangement' = None
    /\ results' = <<>>
    /\ nresult' = NoResult
    /\ UNCHANGED <<best_utilization, pvars, xvars, svars, tvars>>

\* calculate_optimal_nesting is called again on the NestingOptimizer: lines
\* 36-40 make new locals, and the catalog of lines 13-18 is only read.
NestCall ==
    /\ npc = "done"
    /\ Len(calls) + 1 < MaxCalls
    /\ calls' = Append(calls, [input |-> bounding_box, output |-> nresult])
    /\ bounding_box' \in RepeatBoxes
    /\ npc' = "start"
    /\ sheet_i' = 1
    /\ best_utilization' = [num |-> 0, den |-> 1]
    /\ best_sheet' = None
    /\ best_arrangement' = None
    /\ results' = <<>>
    /\ nresult' = NoResult
    /\ UNCHANGED <<pvars, xvars, svars, tvars>>

\* The first call is made on a fresh instance.
RepeatInit ==
    /\ PathInit \/ NestInit
    /\ entities \in RepeatDrawings
    /\ bounding_box \in RepeatBoxes

SpecRepeat ==
    RepeatInit /\ [][PathNext \/ NestNext \/ PathCall \/ NestCall]_vars

\* ---------------------------------------------- _improve_path_2opt, step by step

\* Lines 190-192.
TwoOptInit ==
    /\ PathIdle
    /\ NestIdle
    /\ ExtractIdle
    /\ ScoreIdle
    /\ calls = <<>>
    /\ input_path \in Tours
    /\ tpc = "loop"
    /\ best_path = input_path
    /\ best_distance = calculate_path_distance(input_path)
    /\ improved = TRUE
    /\ passes = 0

\* A pass of the while loop (lines 194-211) that finds a shorter path: the
\* first one found is taken and both for loops are left.
TwoOptAccept ==
    /\ tpc = "loop"
    /\ improved
    /\ improving_pairs(best_path, best_distance) # {}
    /\ LET ij == first_improving(best_path, best_distance) IN
        /\ best_path' = reversed_between(best_path, ij[1], ij[2])
        /\ best_distance' = calculate_path_distance(best_path')
    /\ passes' = passes + 1
    /\ UNCHANGED <<tpc, input_path, improved, pvars, nvars, xvars, svars, calls>>

\* A pass that finds none: improved stays False, the while loop ends and
\* line 213 returns best_path.
TwoOptReturn ==
    /\ tpc = "loop"
    /\ improved
    /\ improving_pairs(best_path, best_distance) = {}
    /\ improved' = FALSE
    /\ tpc' = "done"
    /\ passes' = passes + 1
    /\ UNCHANGED <<input_path, best_path, best_distance, pvars, nvars, xvars,
                   svars, calls>>

\* The call runs on: while it is in the loop, the pass it is at is carried
\* out, and every pass counts in passes.
SpecTwoOpt ==
    /\ TwoOptInit
    /\ [][TwoOptAccept \/ TwoOptReturn]_vars
    /\ WF_passes(tpc = "loop" /\ passes' = passes + 1)

\* ------------------------------------------------- process_dxf, step by step

\* Lines 25-48: the modelspace is read and geometry_data set up.
ExtractInit ==
    /\ PathIdle
    /\ NestIdle
    /\ ScoreIdle
    /\ msp \in Modelspaces
    /\ xpc = "loop"
    /\ entity_i = 1
    /\ geometry_data = initial_geometry_data
    /\ all_points = <<>>
    /\ xresult = NoResult
    /\ calls = <<>>
    /\ TwoOptIdle

\* One iteration of the for loop (lines 51-191).
ProcessEntity ==
    /\ xpc = "loop"
    /\ entity_i <= Len(msp)
    /\ ~attribute_missing(msp[entity_i])
    /\ geometry_data' = process_entity(geometry_data, msp[entity_i])
    /\ all_points' = all_points \o reference_points(msp[entity_i])
    /\ entity_i' = entity_i + 1
    /\ UNCHANGED <<msp, xpc, xresult, pvars, nvars, svars, calls, tvars>>

\* An iteration that fails at line 57, after the layer was counted: lines
\* 238-240 raise.  The text after the colon is the library's.
ProcessEntityRaise ==
    /\ xpc = "loop"
    /\ entity_i <= Len(msp)
    /\ attribute_missing(msp[entity_i])
    /\ geometry_data' = [geometry_data EXCEPT
                             !.layer_stats = count_layer(@, msp[entity_i].layer)]
    /\ xresult' = [raised |-> "Failed to process DXF file: no attribute 'end'"]
    /\ xpc' = "raised"
    /\ UNCHANGED <<msp, entity_i, all_points, pvars, nvars, svars, calls, tvars>>

\* The loop has ended with reference points: lines 194-236.
ProcessReturn ==
    /\ xpc = "loop"
    /\ entity_i > Len(msp)
    /\ ~area_missing(calculate_bounding_box(geometry_data.bounding_box, all_points))
    /\ \E complexity_score \in calculate_complexity_score(
              [geometry_data EXCEPT
                  !.bounding_box = calculate_bounding_box(@, all_points)]) :
          geometry_data' = finished_geometry_data(geometry_data, all_points,
                                                  complexity_score)
    /\ xresult' = geometry_data'
    /\ xpc' = "done"
    /\ UNCHANGED <<msp, entity_i, all_points, pvars, nvars, svars, calls, tvars>>

\* The loop has ended without a reference point: line 216 fails and lines
\* 238-240 raise.
ProcessRaise ==
    /\ xpc = "loop"
    /\ entity_i > Len(msp)
    /\ area_missing(calculate_bounding_box(geometry_data.bounding_box, all_points))
    /\ xresult' = [raised |-> "Failed to process DXF file: 'area'"]
    /\ xpc' = "raised"
    /\ UNCHANGED <<msp, entity_i, geometry_data, all_points, pvars, nvars, svars, calls, tvars>>

ExtractNext ==
    ProcessEntity \/ ProcessEntityRaise \/ ProcessReturn \/ ProcessRaise

SpecExtract == ExtractInit /\ [][ExtractNext]_vars

\* --------------------------------------------- _calculate_complexity_score

\* The geometry_data handed to _calculate_complexity_score: the fields it
\* reads.  The counts go from none to beyond the caps of the factors; the
\* layers are named 1..n; the bounding box has no area, or one in hundredths
\* of mm2 that is zero, below 1 mm2, or in one of the four size tiers.
ScoreInputs ==
    {[line_count |-> lc, arc_count |-> ac, circle_count |-> cc,
      polyline_count |-> pc, spline_count |-> sc, ellipse_count |-> ec,
      layer_stats |-> [l \in 1..n |-> [count |-> 0, length |-> 0]],
      bounding_box |-> box] :
        lc \in {0, 1, 300, 6000000}, ac \in {0, 1}, cc \in {0, 1},
        pc \in {0, 1}, sc \in {0, 1, 30, 31}, ec \in {0, 1}, n \in {0, 1, 8},
        box \in {EmptyDict}
                   \cup {[area |-> a] :
                            a \in {0, 50, 500000, 5000000, 50000000, 100000100}}}

ScoreInit ==
    /\ PathIdle
    /\ NestIdle
    /\ ExtractIdle
    /\ score_data \in ScoreInputs
    /\ spc = "call"
    /\ score = 0
    /\ calls = <<>>
    /\ TwoOptIdle

\* A call of _calculate_complexity_score.
ComplexityScore ==
    /\ spc = "call"
    /\ score' \in calculate_complexity_score(score_data)
    /\ spc' = "done"
    /\ UNCHANGED <<score_data, pvars, nvars, xvars, calls, tvars>>

SpecScore == ScoreInit /\ [][ComplexityScore]_vars

\* ================================================================= claims

\* The tour at hand: the returned optimized_path once calculate_tsp_path has
\* returned successfully, the path under construction before.
TourBuilt == ppc = "nn" \/ (ppc = "done" /\ presult.success)
Tour == IF ppc = "done" THEN presult.optimized_path ELSE path

\* How often w occurs in the sequence s.
Occurrences(s, w) == Cardinality({k \in 1..Len(s) : s[k] = w})

KindCount(kind) == Cardinality({i \in 1..Len(entities) : entities[i].type = kind})

\* The waypoints the drawing has: two per Line, one per Circle.
WaypointCount == 2 * KindCount("LINE") + KindCount("CIRCLE")

\* C1: with at least 2 waypoints the call succeeds and the returned tour is a
\* permutation of the extracted waypoints: every waypoint occurs in it as
\* often as in the extracted list (once), nothing else occurs, and
\* path_steps = total_points.
C1_TourIsPermutation ==
    (ppc = "done" /\ Len(points) >= 2) =>
        /\ presult.success
        /\ Len(presult.optimized_path) = Len(points)
        /\ \A i \in 1..Len(points) :
               /\ Occurrences(points, points[i]) = 1
               /\ Occurrences(presult.optimized_path, points[i]) = 1
        /\ \A k \in 1..Len(presult.optimized_path) :
               Occurrences(points, presult.optimized_path[k]) = 1
        /\ presult.path_steps = presult.total_points
        /\ presult.total_points = Len(points)

\* C1's case: a returned tour over four waypoints that is not in extraction order.
C1_Witness ==
    /\ ppc = "done"
    /\ presult.success
    /\ Len(points) = 4
    /\ presult.optimized_path # points

\* The exact squared Euclidean distance of two waypoints.
DSq(p, q) == (p.x - q.x) * (p.x - q.x) + (p.y - q.y) * (p.y - q.y)

\* The position of waypoint w in the extracted list.
PosIn(pts, w) == CHOOSE j \in 1..Len(pts) : pts[j] = w

\* The positions (in the extracted list) of the waypoints not among the
\* first k - 1 of the tour.
Remaining(k) ==
    {j \in 1..Len(points) : \A m \in 1..(k - 1) : Tour[m] # points[j]}

\* C2: the tour starts at the first extracted waypoint, and the waypoint at
\* every later position k is, among the waypoints not yet in the tour, one
\* at minimal Euclidean distance from the waypoint at position k - 1, and
\* the earliest such in the original waypoint order.
C2_NearestNeighborOrder ==
    TourBuilt =>
        /\ Tour[1] = points[1]
        /\ \A k \in 2..Len(Tour) :
               LET c == PosIn(points, Tour[k]) IN
               /\ c \in Remaining(k)
               /\ \A j \in Remaining(k) :
                      /\ DSq(Tour[k - 1], points[j]) >= DSq(Tour[k - 1], Tour[k])
                      /\ j < c =>
                             DSq(Tour[k - 1], points[j]) > DSq(Tour[k - 1], Tour[k])

\* C2's case: a returned tour in which some step had to break a tie, a later
\* waypoint being as near as the one chosen.
C2_Witness ==
    /\ ppc = "done"
    /\ presult.success
    /\ \E k \in 2..Len(Tour) : \E j \in Remaining(k) :
           /\ j > PosIn(points, Tour[k])
           /\ DSq(Tour[k - 1], points[j]) = DSq(Tour[k - 1], Tour[k])

\* The positions of the waypoints tagged with the (0-based) index i - 1 of
\* entity i.
PointsOf(i) == {j \in 1..Len(points) : points[j].entity_id = i - 1}

\* C3: a Line yields exactly two adjacent waypoints, its start then its end;
\* a Circle exactly one, at its center; every other kind none; the waypoints
\* are in entity order and tagged with their entity's index and their role;
\* so total_points = 2 x Lines + Circles.
C3_WaypointExtraction ==
    ppc \in {"nn", "done"} =>
        /\ Len(points) = WaypointCount
        /\ \A i \in 1..Len(entities) :
               LET e == entities[i] IN
               IF e.type = "LINE"
               THEN \E j \in 1..(Len(points) - 1) :
                        /\ PointsOf(i) = {j, j + 1}
                        /\ points[j].type = "start"
                        /\ <<points[j].x, points[j].y>> = e.start
                        /\ points[j + 1].type = "end"
                        /\ <<points[j + 1].x, points[j + 1].y>> = e.end
               ELSE IF e.type = "CIRCLE"
               THEN \E j \in 1..Len(points) :
                        /\ PointsOf(i) = {j}
                        /\ points[j].type = "circle"
                        /\ <<points[j].x, points[j].y>> = e.center
               ELSE PointsOf(i) = {}
        /\ \A j \in 1..(Len(points) - 1) :
               points[j].entity_id <= points[j + 1].entity_id
        /\ (ppc = "done" /\ presult.success) =>
               presult.total_points = WaypointCount

\* C3's case: a drawing with a Line and an Arc (which has a center, as a
\* Circle has) went through the extraction and gave the Line's two waypoints.
C3_Witness ==
    /\ ppc = "done"
    /\ KindCount("LINE") = 1
    /\ KindCount("ARC") = 1
    /\ presult.success
    /\ presult.total_points = 2

\* The entities that take part in the baseline walk.
IsCut(e) == e.type \in {"LINE", "CIRCLE"}
FirstRef(e) == IF e.type = "LINE" THEN e.start ELSE e.center
LastRef(e) == IF e.type = "LINE" THEN e.end ELSE e.center
OwnLength(e) == IF e.type = "LINE" THEN distance(e.start, e.end) ELSE 0

\* The baseline over the first k Lines and Circles c[1..k]: each one's own
\* length, plus the travel to it from its predecessor's last point.
RECURSIVE BaselineSum(_, _)
BaselineSum(c, k) ==
    IF k = 0 THEN 0
    ELSE BaselineSum(c, k - 1) + OwnLength(c[k])
             + (IF k > 1 THEN distance(LastRef(c[k - 1]), FirstRef(c[k])) ELSE 0)

\* C4: the baseline distance is the walk over the Lines and Circles in
\* extraction order: travel from the previous one's last point to this one's
\* first reference point (none for the first), plus the line's own length
\* (0 for a circle); other kinds are skipped.  For Line A (0,0)-(10,0), Line
\* B (20,0)-(30,0) the baseline is 30 and the nearest-neighbor tour is 30.
C4_BaselineDistance ==
    /\ ppc \in {"nn", "done"} =>
           original_distance =
               BaselineSum(SelectSeq(entities, IsCut),
                           Len(SelectSeq(entities, IsCut)))
    /\ (ppc = "done" /\ presult.success) =>
           presult.original_distance = Round2(original_distance)
    /\ (ppc = "done" /\ entities = ExampleAB) =>
           /\ presult.success
           /\ presult.original_distance = 3000
           /\ presult.optimized_distance = 3000

\* C4's case: the example drawing went through the call.
C4_Witness ==
    /\ ppc = "done"
    /\ entities = ExampleAB
    /\ presult.original_distance = 3000

\* C5 as stated: in every successful result optimized_distance >= 0,
\* savings_distance = original_distance - optimized_distance,
\* savings_percent <= 100, and savings_percent = 0 when original_distance = 0.
C5_SavingsAsStated ==
    (ppc = "done" /\ presult.success) =>
        /\ presult.optimized_distance >= 0
        /\ presult.savings_distance =
               presult.original_distance - presult.optimized_distance
        /\ presult.savings_percent <= 10000
        /\ presult.original_distance = 0 => presult.savings_percent = 0

\* C5, amended: in every successful result optimized_distance >= 0,
\* savings_percent <= 100, savings_percent = 0 when the original distance is
\* 0, and savings_distance is the difference original - optimized of the
\* computed distances rounded to two decimals; the three reported figures
\* being rounded separately, the reported savings_distance is within 0.01 of
\* the reported original_distance minus the reported optimized_distance.
C5_SavingsRounded ==
    (ppc = "done" /\ presult.success) =>
        /\ presult.optimized_distance >= 0
        /\ presult.savings_distance =
               Round2(original_distance - calculate_path_distance(path))
        /\ Abs(presult.savings_distance
                   - (presult.original_distance - presult.optimized_distance)) <= 1
        /\ presult.savings_percent <= 10000
        /\ original_distance = 0 => presult.savings_percent = 0
        /\ presult.original_distance = 0 => presult.savings_percent = 0

\* C5's case: a successful result whose reported savings differ from the
\* difference of the reported distances.
C5_Witness ==
    /\ ppc = "done"
    /\ presult.success
    /\ presult.savings_distance #
           presult.original_distance - presult.optimized_distance

\* C6: the call returns success = False with the 'not enough points' error
\* exactly when the drawing has fewer than 2 waypoints, and success = True
\* otherwise.
C6_NotEnoughPoints ==
    ppc = "done" =>
        /\ presult.success = (WaypointCount >= 2)
        /\ ~presult.success =>
               presult = [success |-> FALSE,
                          error |-> "Not enough points for path optimization"]

\* C6's case: a drawing whose only waypoint is one Circle has been refused.
C6_Witness ==
    /\ ppc = "done"
    /\ KindCount("CIRCLE") = 1
    /\ WaypointCount = 1
    /\ ~presult.success

\* calculate_optimal_nesting has returned a plan.
NestSucceeded == npc = "done" /\ nresult.success

\* q = floor(n / d), said without a division.
IsFloorOf(q, n, d) == q * d <= n /\ n < (q + 1) * d

\* The catalog sheet an arrangement reports.
SheetOf(a) ==
    CHOOSE k \in 1..Len(standard_sheets) : standard_sheets[k].name = a.sheet_name

\* The catalog sheets, in catalog order, on which at least one part fits with
\* its 5 mm margins: floor((w - 5)/(pw + 5)) >= 1 and the same for the height.
SheetFits(k) ==
    /\ standard_sheets[k].width - 5 >= part_width + 5
    /\ standard_sheets[k].height - 5 >= part_height + 5

\* C7: every reported grid has parts_x = floor((sheet_w - 5)/(part_w + 5)),
\* parts_y = floor((sheet_h - 5)/(part_h + 5)), total_parts = parts_x x
\* parts_y; a 480 x 980 mm part on the 1000 x 2000 mm sheet gives 2 x 2 = 4
\* parts and 94.08% utilization.
C7_GridFormula ==
    /\ \A k \in 1..Len(results) :
           LET a == results[k]
               sheet == standard_sheets[SheetOf(a)]
           IN /\ a.sheet_width = sheet.width /\ a.sheet_height = sheet.height
              /\ IsFloorOf(a.parts_x, sheet.width - 5, part_width + 5)
              /\ IsFloorOf(a.parts_y, sheet.height - 5, part_height + 5)
              /\ a.total_parts = a.parts_x * a.parts_y
    /\ NestSucceeded =>
           /\ nresult.all_arrangements = results
           /\ \E k \in 1..Len(results) : nresult.best_arrangement = results[k]
    /\ (npc = "done" /\ bounding_box = ExamplePart) =>
           /\ nresult.success
           /\ nresult.all_arrangements[1].sheet_name = "1000x2000mm"
           /\ nresult.all_arrangements[1].parts_x = 2
           /\ nresult.all_arrangements[1].parts_y = 2
           /\ nresult.all_arrangements[1].total_parts = 4
           /\ nresult.all_arrangements[1].utilization = 9408

\* C7's case: the example part has been nested.
C7_Witness ==
    /\ NestSucceeded
    /\ bounding_box = ExamplePart
    /\ nresult.best_arrangement.total_parts = 4

\* The exact utilization of arrangement a exceeds that of arrangement b:
\* total_parts x part_area / sheet area, compared by cross-multiplication
\* (sheet areas in units of 125000 mm2).
UtilizationAbove(a, b) ==
    a.total_parts * part_area * ((b.sheet_width * b.sheet_height) \div 125000)
        > b.total_parts * part_area * ((a.sheet_width * a.sheet_height) \div 125000)

\* C8: best_arrangement is the first arrangement in catalog order whose
\* utilization is the maximum: no arrangement has a higher utilization
\* (computed or reported), every earlier one has a strictly lower
\* utilization; the 480 x 980 mm part selects the 1000x2000mm sheet.
C8_FirstBestSheet ==
    NestSucceeded =>
        LET all == nresult.all_arrangements
            best == nresult.best_arrangement
        IN /\ \E k \in 1..Len(all) :
                  /\ all[k] = best
                  /\ \A j \in 1..(k - 1) : UtilizationAbove(best, all[j])
           /\ \A j \in 1..Len(all) :
                  /\ ~UtilizationAbove(all[j], best)
                  /\ all[j].utilization <= best.utilization
           /\ \A j \in 1..(Len(all) - 1) : SheetOf(all[j]) < SheetOf(all[j + 1])
           /\ bounding_box = ExamplePart => best.sheet_name = "1000x2000mm"

\* C8's case: a plan in which a later sheet reaches the same utilization as
\* the chosen one.
C8_Witness ==
    /\ NestSucceeded
    /\ \E j \in 1..Len(nresult.all_arrangements) :
           LET a == nresult.all_arrangements[j] IN
           /\ SheetOf(a) > SheetOf(nresult.best_arrangement)
           /\ ~UtilizationAbove(nresult.best_arrangement, a)
           /\ ~UtilizationAbove(a, nresult.best_arrangement)

\* C9: a sheet with total_parts = 0 is never reported: every arrangement
\* collected or returned, and best_arrangement, has total_parts >= 1, and
\* all_arrangements holds exactly one arrangement, in catalog order, for each
\* sheet on which at least one part fits.
C9_NoEmptySheetReported ==
    /\ \A k \in 1..Len(results) : results[k].total_parts >= 1
    /\ NestSucceeded =>
           /\ nresult.best_arrangement.total_parts >= 1
           /\ \A k \in 1..Len(nresult.all_arrangements) :
                  nresult.all_arrangements[k].total_parts >= 1
           /\ [k \in 1..Len(nresult.all_arrangements) |->
                  SheetOf(nresult.all_arrangements[k])]
                  = SelectSeq([k \in 1..Len(standard_sheets) |-> k], SheetFits)

\* C9's case: a plan that reports some catalog sheets and leaves others out.
C9_Witness ==
    /\ NestSucceeded
    /\ Len(nresult.all_arrangements) = 2
    /\ ~SheetFits(1)

\* C10: a part of non-zero width and height that fits on no catalog sheet
\* gets the explicit 'part too large' failure.
C10_PartTooLarge ==
    (/\ npc = "done"
     /\ part_width # 0
     /\ part_height # 0
     /\ \A k \in 1..Len(standard_sheets) : ~SheetFits(k)) =>
        nresult = [success |-> FALSE,
                   error |-> "Part too large for standard sheets"]

\* C10's case: a part wider than every sheet has been refused as too large.
C10_Witness ==
    /\ npc = "done"
    /\ part_width > 2000
    /\ part_height # 0
    /\ ~nresult.success
    /\ nresult.error = "Part too large for standard sheets"

\* The recommendations of the returned plan that carry message m.
Recommended(m) ==
    {k \in 1..Len(nresult.recommendations) : nresult.recommendations[k].msg = m}

\* The parts the width/height-swapped grid puts on the sheet of arrangement a:
\* the largest nx, ny with 5 + nx (part_h + 5) <= sheet_w and
\* 5 + ny (part_w + 5) <= sheet_h.
RotatedTotal(a) ==
    LET nx == CHOOSE n \in 0..a.sheet_width :
                  IsFloorOf(n, a.sheet_width - 5, part_height + 5)
        ny == CHOOSE n \in 0..a.sheet_height :
                  IsFloorOf(n, a.sheet_height - 5, part_width + 5)
    IN nx * ny

\* C11: the layout of every reported arrangement has total_parts entries in
\* row-major order; the entry of row r, column c has part_number
\* r x parts_x + c + 1, x = spacing + c (part_w + spacing) and
\* y = spacing + r (part_h + spacing).
C11_LayoutRowMajor ==
    \A k \in 1..Len(results) :
        LET a == results[k] IN
        /\ Len(a.layout) = a.total_parts
        /\ \A r \in 0..(a.parts_y - 1) : \A c \in 0..(a.parts_x - 1) :
               LET e == a.layout[r * a.parts_x + c + 1] IN
               /\ e.part_number = r * a.parts_x + c + 1
               /\ e.x = (5 + c * (part_width + 5)) * 100
               /\ e.y = (5 + r * (part_height + 5)) * 100
        /\ \A i \in 1..Len(a.layout) : a.layout[i].part_number = i

\* C11's case: a reported layout of several rows and several columns, their
\* numbers different.
C11_Witness ==
    /\ NestSucceeded
    /\ \E k \in 1..Len(nresult.all_arrangements) :
           LET a == nresult.all_arrangements[k] IN
           /\ a.parts_x >= 2 /\ a.parts_y >= 2 /\ a.parts_x # a.parts_y
           /\ Len(a.layout) = a.parts_x * a.parts_y

\* C12 as stated: a 'rotating would fit N parts' recommendation never appears
\* for a chosen arrangement whose utilization is 50% or more.
C12_RotationOnlyBelowHalf ==
    (NestSucceeded /\ nresult.best_arrangement.utilization >= 5000) =>
        Recommended("Rotating parts would fit") = {}

\* C12, amended: the rotated grid is compared for every chosen arrangement,
\* whatever its utilization: 'rotating would fit N parts' appears exactly
\* when the rotated grid fits strictly more parts than the chosen one, with
\* N the rotated total; only the general 'consider rotating' advice is tied
\* to a utilization below 50%.
C12_RotationReported ==
    NestSucceeded =>
        LET best == nresult.best_arrangement IN
        /\ (Recommended("Rotating parts would fit") # {})
               = (RotatedTotal(best) > best.total_parts)
        /\ \A k \in Recommended("Rotating parts would fit") :
               nresult.recommendations[k].n = RotatedTotal(best)
        /\ (Recommended("Consider rotating parts") # {})
               = (best.utilization < 5000)

\* C12's case: a plan whose chosen arrangement is used to 50% or more and
\* that reports the rotated grid.
C12_Witness ==
    /\ NestSucceeded
    /\ nresult.best_arrangement.utilization >= 5000
    /\ Recommended("Rotating parts would fit") # {}

\* C13: the plan returned carries the arrangement the catalog scan chose,
\* unchanged: the unrotated grid on the chosen sheet with its layout of
\* unrotated parts, also when the rotated grid would fit more parts.
C13_SelectionUnchanged ==
    NestSucceeded =>
        LET best == nresult.best_arrangement IN
        /\ best = best_arrangement
        /\ best.sheet_name = best_sheet.name
        /\ nresult.all_arrangements = results
        /\ IsFloorOf(best.parts_x, best_sheet.width - 5, part_width + 5)
        /\ IsFloorOf(best.parts_y, best_sheet.height - 5, part_height + 5)
        /\ best.total_parts = best.parts_x * best.parts_y
        /\ Len(best.layout) = best.total_parts
        /\ \A i \in 1..Len(best.layout) :
               /\ best.layout[i].width = part_width
               /\ best.layout[i].height = part_height

\* C13's case: a plan returned although the rotated grid fits more parts.
C13_Witness ==
    /\ NestSucceeded
    /\ RotatedTotal(nresult.best_arrangement)
           > nresult.best_arrangement.total_parts
    /\ Recommended("Rotating parts would fit") # {}

\* r is x / y * 100 to the nearest hundredth of a percent, for a catalog area
\* y (a multiple of 5000): |r - 10000 x / y| <= 1/2.
IsPercentOf(r, x, y) == Abs(2 * r * (y \div 5000) - 4 * x) <= y \div 5000

\* c is x / y to the nearest unit: |c - x / y| <= 1/2.
IsQuotientOf(c, x, y) == 2 * Abs(c * y - x) <= y

\* C14 as stated: for every reported arrangement utilization% =
\* total_parts x part_area / sheet_area x 100, waste% = 100 - utilization%,
\* and cost_per_part = sheet_area x cost_per_unit_area / total_parts, with
\* total_parts >= 1.
C14_UtilizationWasteCostAsStated ==
    \A k \in 1..Len(results) :
        LET a == results[k]
            sheet == standard_sheets[SheetOf(a)]
        IN /\ a.total_parts >= 1
           /\ IsPercentOf(a.utilization, a.total_parts * part_area, sheet.area)
           /\ a.waste_percent = 10000 - a.utilization
           /\ IsQuotientOf(a.cost_per_part, sheet.area * sheet.cost_per_mm2,
                           a.total_parts)

\* C14, amended: utilization% = total_parts x part_area / sheet_area x 100
\* and waste% = (sheet_area - total_parts x part_area) / sheet_area x 100 are
\* each rounded to two decimals on their own, so their sum is within 0.01 of
\* 100; cost_per_part = sheet_area x cost_per_unit_area / total_parts to
\* four decimals, with total_parts >= 1.
C14_UtilizationWasteCost ==
    \A k \in 1..Len(results) :
        LET a == results[k]
            sheet == standard_sheets[SheetOf(a)]
        IN /\ a.total_parts >= 1
           /\ IsPercentOf(a.utilization, a.total_parts * part_area, sheet.area)
           /\ IsPercentOf(a.waste_percent,
                          sheet.area - a.total_parts * part_area, sheet.area)
           /\ Abs(a.utilization + a.waste_percent - 10000) <= 1
           /\ IsQuotientOf(a.cost_per_part, sheet.area * sheet.cost_per_mm2,
                           a.total_parts)

\* C14's case: a reported arrangement whose two percentages do not add up
\* to 100.
C14_Witness ==
    /\ NestSucceeded
    /\ \E k \in 1..Len(nresult.all_arrangements) :
           LET a == nresult.all_arrangements[k] IN
           /\ a.total_parts >= 1
           /\ a.utilization > 0
           /\ a.utilization + a.waste_percent # 10000

\* The record process_dxf has returned.
Extracted == xpc = "done"

\* The dicts of 'entities', as a set of positions.
EntityIndices == 1..Len(geometry_data.entities)

\* The 'length' of an entity dict; a dict without the key counts for 0.
LengthField(e) == IF "length" \in DOMAIN e THEN e.length ELSE 0

\* end_angle - start_angle taken forward into (0, 360] degrees.
ForwardSpan(e) == ((e.end_angle - e.start_angle - 1) % 360) + 1

\* C15: for every Arc the length is radius x angle_span, the span being
\* end_angle - start_angle normalized forward into (0, 2*pi]: never 0 and
\* never more than a full turn, also when end_angle equals start_angle and
\* when it is smaller.
C15_ArcSpanNormalized ==
    \A k \in EntityIndices :
        LET e == geometry_data.entities[k] IN
        e.type = "ARC" =>
            /\ e.length > 0
            /\ e.length <= round2_length((TwoPi4 * e.radius) \div 100)
            /\ e.length = round2_length((e.radius * radians(ForwardSpan(e))) \div 100)

\* C16: every entity length the extractor computes is >= 0, whatever the
\* kind and the start and end angles, and Text and BlockRef entities
\* contribute 0 to the total length.
C16_LengthsNonNegative ==
    /\ \A key \in DOMAIN geometry_data.entity_lengths :
           \A k \in 1..Len(geometry_data.entity_lengths[key]) :
               geometry_data.entity_lengths[key][k] >= 0
    /\ \A k \in EntityIndices :
           /\ LengthField(geometry_data.entities[k]) >= 0
           /\ geometry_data.entities[k].type \in {"TEXT", "MTEXT", "BLOCK_REFERENCE"}
                  => "length" \notin DOMAIN geometry_data.entities[k]
    /\ geometry_data.total_length >= 0

\* C17 as stated: in every returned record the bounding box has
\* min_x <= max_x, min_y <= max_y, width, height and area >= 0, and
\* area = width x height.
C17_BoundingBoxAsStated ==
    Extracted =>
        LET box == xresult.bounding_box IN
        /\ box.min_x <= box.max_x
        /\ box.min_y <= box.max_y
        /\ box.width >= 0
        /\ box.height >= 0
        /\ box.area >= 0
        /\ 100 * box.area = box.width * box.height

\* C17, amended: in every returned record the bounding box has
\* min_x <= max_x, min_y <= max_y, width, height and area >= 0, and area
\* equals width x height up to the rounding of the three fields to two
\* decimals: |area - width x height| <= 0.005 x (width + height) + 0.01.
C17_BoundingBox ==
    Extracted =>
        LET box == xresult.bounding_box IN
        /\ box.min_x <= box.max_x
        /\ box.min_y <= box.max_y
        /\ box.width >= 0
        /\ box.height >= 0
        /\ box.area >= 0
        /\ 2 * Abs(100 * box.area - box.width * box.height)
               <= box.width + box.height + 200

\* C17's case: a returned box of positive width and height whose area is not
\* the product of the two.
C17_Witness ==
    /\ Extracted
    /\ xresult.bounding_box.width > 0
    /\ xresult.bounding_box.height > 0
    /\ 100 * xresult.bounding_box.area
           # xresult.bounding_box.width * xresult.bounding_box.height

\* The sum of the length fields of the dicts of a list of entity dicts.
SumOfLengthFields(ents) ==
    SumSeq([k \in 1..Len(ents) |-> LengthField(ents[k])])

\* C18 as stated: the stored total_length equals exactly the sum of the
\* length fields of the entities of the record.
C18_TotalIsSumExactly ==
    Extracted => xresult.total_length = SumOfLengthFields(xresult.entities)

\* C18, amended: the stored total_length equals the sum of the length fields
\* of the entities up to the rounding to two decimals of the total and of
\* the fields: the two differ by less than 0.01 mm x (1 + the number of
\* entities).
C18_TotalIsSum ==
    Extracted =>
        Abs(xresult.total_length - SumOfLengthFields(xresult.entities))
            < 100 * (1 + Len(xresult.entities))

\* C18's case: a returned record of several measured entities whose total
\* is not the sum of the fields.
C18_Witness ==
    /\ Extracted
    /\ Cardinality({k \in 1..Len(xresult.entities) :
                       LengthField(xresult.entities[k]) > 0}) >= 2
    /\ xresult.total_length # SumOfLengthFields(xresult.entities)

\* The entity dicts of the returned record on a layer, and of a set of types.
OnLayer(l) == {k \in 1..Len(xresult.entities) : xresult.entities[k].layer = l}
OfTypes(types) == {k \in 1..Len(xresult.entities) : xresult.entities[k].type \in types}

\* The sum of the length fields of the entity dicts at a set of positions.
RECURSIVE SumOfLengthsAt(_)
SumOfLengthsAt(positions) ==
    IF positions = {} THEN 0
    ELSE LET k == CHOOSE p \in positions : TRUE
         IN LengthField(xresult.entities[k]) + SumOfLengthsAt(positions \ {k})

\* C19: in every returned record, for each layer the layer_stats count is
\* the number of entities of the entity sequence on that layer and the
\* layer length is the sum of their lengths, and each per-kind count is the
\* number of entities of that kind in the sequence.
C19_AggregatesMatchEntities ==
    Extracted =>
        /\ \A l \in DOMAIN xresult.layer_stats :
               /\ xresult.layer_stats[l].count = Cardinality(OnLayer(l))
               /\ xresult.layer_stats[l].length = SumOfLengthsAt(OnLayer(l))
        /\ xresult.line_count = Cardinality(OfTypes({"LINE"}))
        /\ xresult.arc_count = Cardinality(OfTypes({"ARC"}))
        /\ xresult.circle_count = Cardinality(OfTypes({"CIRCLE"}))
        /\ xresult.polyline_count = Cardinality(OfTypes({"LWPOLYLINE", "POLYLINE"}))
        /\ xresult.spline_count = Cardinality(OfTypes({"SPLINE"}))
        /\ xresult.ellipse_count = Cardinality(OfTypes({"ELLIPSE"}))
        /\ xresult.text_count = Cardinality(OfTypes({"TEXT", "MTEXT"}))
        /\ xresult.block_ref_count = Cardinality(OfTypes({"BLOCK_REFERENCE"}))

\* All the inputs of the score are zero: no entity, no layer, no area.
AllZero(data) ==
    /\ total_entities(data) = 0
    /\ DOMAIN data.layer_stats = {}
    /\ area_of(data.bounding_box) = 0

\* C20: the complexity score is within [0, 100] for all non-negative counts,
\* layer counts and areas, and exactly 0 when all of them are zero.
C20_ScoreRange ==
    spc = "done" =>
        /\ score >= 0
        /\ score <= 1000
        /\ AllZero(score_data) => score = 0

\* C20's case: a score at the upper end, from counts beyond the caps of the
\* factors.
C20_Witness ==
    /\ spc = "done"
    /\ score = 1000
    /\ total_entities(score_data) > 300
    /\ score_data.spline_count > 30

\* The kinds process_dxf has a branch for.
SupportedKinds == {"LINE", "ARC", "CIRCLE", "LWPOLYLINE", "POLYLINE", "SPLINE",
                   "ELLIPSE", "TEXT", "MTEXT", "INSERT"}

\* An entity of the modelspace of an unsupported kind, or malformed.
Rejectable(ent) == ent.dxftype \notin SupportedKinds \/ attribute_missing(ent)

\* C21: when the stream holds a malformed or unsupported entity, extraction
\* fails with an error and returns no record: a returned record is never
\* built from only part of the stream.
C21_NoPartialRecord ==
    /\ Extracted =>
           /\ \A i \in 1..Len(msp) : ~Rejectable(msp[i])
           /\ Len(xresult.entities) = Len(msp)
    /\ (xpc \in {"done", "raised"} /\ \E i \in 1..Len(msp) : Rejectable(msp[i]))
           => xpc = "raised" /\ "raised" \in DOMAIN xresult

\* A dict an optimizer returns: success = True, or success = False with an
\* error message.
IsResult(r) ==
    /\ "success" \in DOMAIN r
    /\ r.success \in BOOLEAN
    /\ ~r.success => "error" \in DOMAIN r

\* C22: calculate_tsp_path and calculate_optimal_nesting never raise on a
\* well-formed but degenerate record: the index popped from unvisited is in
\* range, the divisors of lines 47, 48, 56 and 64 of the nesting and of line
\* 86 of the path are not zero where the division is made, and what a call
\* returns is a success result or an explicit result with success = False.
C22_OptimizersNeverRaise ==
    /\ (ppc = "nn" /\ unvisited # <<>>) =>
           nearest_index(current, unvisited) \in 1..Len(unvisited)
    /\ npc = "loop" =>
           /\ part_width + spacing # 0
           /\ part_height + spacing # 0
           /\ \A k \in 1..Len(standard_sheets) : standard_sheets[k].area # 0
    /\ \A k \in 1..Len(results) : results[k].total_parts # 0
    /\ ppc = "done" =>
           /\ IsResult(presult)
           /\ (presult.success /\ original_distance = 0) =>
                  presult.savings_percent = 0
    /\ npc = "done" => IsResult(nresult)

\* C22's case: a record without bounding-box fields has been answered with
\* an explicit failure.
C22_Witness ==
    /\ npc = "done"
    /\ bounding_box.has = {}
    /\ IsResult(nresult)
    /\ ~nresult.success


\* ----------------------------------------------------------------------
\* C23: what an optimizer returns depends on the record it is handed only.
\* Two calls on the same instance with equal input return equal output,
\* whatever calls came before or in between, and a call in progress leaves
\* the record it was handed as it was.
SameOutput(input, output) ==
    \A a \in 1..Len(calls) :
        calls[a].input = input => calls[a].output = output

InputKept ==
    /\ ppc \in {"start", "nn"} => entities' = entities
    /\ npc \in {"start", "loop"} => bounding_box' = bounding_box

IsPolyline(kind) == kind \in {"LWPOLYLINE", "POLYLINE"}
Polylines == SelectSeq(msp, LAMBDA e : IsPolyline(e.dxftype))
PolylineDicts == SelectSeq(xresult.entities, LAMBDA e : IsPolyline(e.type))

\* The straight distance between two points, and the sum of the distances
\* between the consecutive points of a list.
Hop(p, q) == hypot4(q[1] - p[1], q[2] - p[2])

RECURSIVE ListedHops(_)
ListedHops(v) ==
    IF Len(v) < 2 THEN 0 ELSE Hop(v[1], v[2]) + ListedHops(Tail(v))

\* C24: the length of a polyline is the sum of the straight distances
\* between its consecutive listed vertices, whether it is flagged closed or
\* not: the segment from the last vertex back to the first is never added.
C24_PolylineListedSegmentsOnly ==
    Extracted =>
        /\ Len(PolylineDicts) = Len(Polylines)
        /\ \A k \in 1..Len(Polylines) :
               /\ PolylineDicts[k].is_closed = Polylines[k].closed
               /\ PolylineDicts[k].length
                      = round2_length(ListedHops(Polylines[k].vertices))

\* A returned record with a closed polyline whose closing segment has a
\* length and is not in the length reported.
C24_Witness ==
    /\ Extracted
    /\ \E k \in 1..Len(Polylines) :
           LET v == Polylines[k].vertices IN
           /\ PolylineDicts[k].is_closed
           /\ Len(v) >= 3
           /\ Hop(v[Len(v)], v[1]) > 0
           /\ PolylineDicts[k].length > 0
           /\ PolylineDicts[k].length
                  < round2_length(ListedHops(v) + Hop(v[Len(v)], v[1]))


\* ----------------------------------------------------------------------
\* The reference points of an entity as the specification lists them, and
\* those of the whole modelspace.
ListedPoints(ent) ==
    CASE ent.dxftype = "LINE" -> {ent.start, ent.end}
      [] IsPolyline(ent.dxftype) ->
           {ent.vertices[i] : i \in 1..Len(ent.vertices)}
      [] ent.dxftype \in {"ARC", "CIRCLE", "ELLIPSE"} -> {ent.center}
      [] ent.dxftype \in {"TEXT", "MTEXT", "INSERT"} ->
           IF ent.insert = NoInsert THEN {} ELSE {ent.insert}
      [] OTHER -> {}

ReferencePointSet == UNION {ListedPoints(msp[i]) : i \in 1..Len(msp)}

Least(S) == CHOOSE m \in S : \A n \in S : m <= n
Greatest(S) == CHOOSE m \in S : \A n \in S : m >= n

Returned2opt == tpc = "done"
SubSegments(p) == {ij \in (1..Len(p)) \X (1..Len(p)) : ij[1] < ij[2]}
ReversalOf(p, ij) ==
    SubSeq(p, 1, ij[1] - 1)
        \o [k \in 1..(ij[2] - ij[1] + 1) |-> p[ij[2] + 1 - k]]
        \o SubSeq(p, ij[2] + 1, Len(p))

\* C26: when _improve_path_2opt returns, no contiguous sub-segment of the
\* returned tour has a reversal that gives a strictly shorter total path.
C26_NoImprovingReversal ==
    Returned2opt =>
        \A ij \in SubSegments(best_path) :
            calculate_path_distance(ReversalOf(best_path, ij))
                >= calculate_path_distance(best_path)


\* ----------------------------------------------------------------------
\* p visits the waypoints of q, each as often as q does.
IsPermutationOf(p, q) ==
    /\ Len(p) = Len(q)
    /\ \E f \in [1..Len(q) -> 1..Len(q)] :
           /\ \A a, b \in 1..Len(q) : f[a] = f[b] => a = b
           /\ \A k \in 1..Len(q) : p[k] = q[f[k]]

\* A step that replaces best_path replaces it by a strictly shorter path.
ReversalShortens ==
    best_path' # best_path =>
        /\ best_distance' < best_distance
        /\ calculate_path_distance(best_path')
               < calculate_path_distance(best_path)

\* C27: _improve_path_2opt terminates on every finite tour.  Each accepted
\* reversal strictly decreases the total path length, the tour stays a
\* permutation of the input waypoints with the first waypoint in its place,
\* and the returned tour is never longer than the input tour.
C27_TwoOptTerminates ==
    /\ [][ReversalShortens]_vars
    /\ [](/\ IsPermutationOf(best_path, input_path)
          /\ input_path # <<>> => best_path[1] = input_path[1]
          /\ best_distance = calculate_path_distance(best_path)
          /\ best_distance <= calculate_path_distance(input_path))
    /\ <>Returned2opt

\* A tour returned after at least one reversal, shorter than it came.
C27_Witness ==
    /\ Returned2opt
    /\ best_path # input_path
    /\ best_distance < calculate_path_distance(input_path)


\* ----------------------------------------------------------------------
\* The placed part p of an arrangement a keeps the spacing to the four edges
\* of the sheet (x and y are hundredths of a mm, the sizes mm).
InsideSheet(a, p) ==
    /\ p.x >= 100 * spacing
    /\ p.y >= 100 * spacing
    /\ p.x + 100 * p.width <= 100 * (a.sheet_width - spacing)
    /\ p.y + 100 * p.height <= 100 * (a.sheet_height - spacing)

\* The placed parts p and q lie side by side or one above the other, at
\* least the spacing apart.
Apart(p, q) ==
    \/ p.x + 100 * (p.width + spacing) <= q.x
    \/ q.x + 100 * (q.width + spacing) <= p.x
    \/ p.y + 100 * (p.height + spacing) <= q.y
    \/ q.y + 100 * (q.height + spacing) <= p.y

WellPlaced(a) ==
    /\ Len(a.layout) = a.total_parts
    /\ \A k \in 1..Len(a.layout) :
           /\ InsideSheet(a, a.layout[k])
           /\ \A m \in 1..Len(a.layout) :
                  m # k => Apart(a.layout[k], a.layout[m])

\* C28: in the layout of every reported arrangement every placed part lies
\* inside the sheet with at least the 5 mm spacing to each edge, and any two
\* placed parts do not overlap and are at least the spacing apart.
C28_LayoutInsideAndApart ==
    /\ \A k \in 1..Len(results) : WellPlaced(results[k])
    /\ (npc = "done" /\ nresult.success) =>
           /\ WellPlaced(nresult.best_arrangement)
           /\ \A k \in 1..Len(nresult.all_arrangements) :
                  WellPlaced(nresult.all_arrangements[k])

\* A returned best arrangement with at least two columns and two rows.
C28_Witness ==
    /\ npc = "done"
    /\ nresult.success
    /\ nresult.best_arrangement.parts_x >= 2
    /\ nresult.best_arrangement.parts_y >= 2
    /\ Len(nresult.best_arrangement.layout) >= 4


\* ----------------------------------------------------------------------
\* C29: the 'part too large' failure is returned only when no catalog sheet
\* fits one part.  Whenever the width and the height of the part are
\* non-zero and at least one sheet takes a part, the result is success =
\* True with a best_arrangement, also when the area of the part is 0 or
\* absent.
C29_TooLargeOnlyWhenNothingFits ==
    (/\ npc = "done"
     /\ part_width # 0
     /\ part_height # 0
     /\ \E k \in 1..Len(standard_sheets) : SheetFits(k)) =>
        /\ nresult.success
        /\ "best_arrangement" \in DOMAIN nresult
        /\ nresult.best_arrangement.total_parts >= 1


\* ----------------------------------------------------------------------
\* C30: extraction returns a record, and does not fail, for every
\* well-formed entity stream, the empty stream and the streams without a
\* reference point (only splines, say) among them; the bounding box of the
\* record then still has a width, a height and an area, all >= 0.
C30_WellFormedStreamReturns ==
    (/\ xpc \in {"done", "raised"}
     /\ \A i \in 1..Len(msp) : ~Rejectable(msp[i])) =>
        /\ Extracted
        /\ {"width", "height", "area"} \subseteq DOMAIN xresult.bounding_box
        /\ xresult.bounding_box.width >= 0
        /\ xresult.bounding_box.height >= 0
        /\ xresult.bounding_box.area >= 0

====
